---- MODULE Spec2Model ----
(***************************************************************************)
(* DB2SchemaEditor (iseries/schemaEditor.py): the statements alter_field   *)
(* and add_field execute against the engine, and what they leave behind.   *)
(*                                                                         *)
(* The engine is the record db: the columns of the altered table, the      *)
(* constraints of the schema in the order the catalog returns them, and    *)
(* the tables flagged reorg-pending.  trace is the sequence of statements  *)
(* handed to self.execute, each with the outcome the engine gave it.       *)
(* Column names are sequences of characters, because constraint            *)
(* restoration rewrites them with str.replace.                             *)
(***************************************************************************)
EXTENDS Integers, Sequences, FiniteSets, TLC

VARIABLES db, trace, pc, err, op, strict, old_field, new_field, orig_old,
          orig_new, flags, deferred_constraints, incoming_relations, rels,
          db0

vars == <<db, trace, pc, err, op, strict, old_field, new_field, orig_old,
          orig_new, flags, deferred_constraints, incoming_relations, rels,
          db0>>

----------------------------------------------------------------------------
(* Names *)

\* a row's value is <<v>>; SQL NULL (Python None in a fetched row) is << >>
NULL == << >>
\* defaults and check expressions are texts (sequences of characters);
\* these two stand for the objects NOT_PROVIDED and None
NOT_PROVIDED == <<"NOT_PROVIDED">>
None == <<"None">>
NoType == "None"
NoName == <<"", << >>, "">>
NoColumn == << >>

psudo_column_prefix == <<"p", "s", "u", "d", "o", "_">>

ColId == <<"i", "d">>
ColNew == <<"n", "o">>
ColOther == <<"a", "i", "d">>
ColRef == <<"r", "f">>
ColTarget == <<"t", "g">>

TableT == "T"
TableR == "R"
TableP == "P"
TableQ == "Q"

\* the largest value a row of the altered column holds
MaxVal == 2

----------------------------------------------------------------------------
(* Fields: what alter_field and add_field read of a Django field *)

FieldClasses == {"AutoField", "IntegerField", "TextField", "DecimalField"}

\* field.db_parameters(connection)['type']
db_type(cls) ==
    CASE cls = "AutoField" -> "IDENTITY"
      [] cls = "IntegerField" -> "INTEGER"
      [] cls = "TextField" -> "CLOB"
      [] cls = "DecimalField" -> "DECIMAL"
      [] OTHER -> NoType

\* isinstance(field, models.AutoField)
IsAutoField(f) == f.cls = "AutoField"
\* isinstance(field, models.TextField)
IsTextField(f) == f.cls = "TextField"
\* isinstance(field, models.IntegerField)
IsIntegerField(f) == f.cls = "IntegerField"

\* field.has_default()
has_default(f) == f.default # NOT_PROVIDED

\* self.effective_default(field)
effective_default(f) == IF has_default(f) THEN f.default ELSE None

\* remote_field.through of a field: no such attribute, a table Django
\* created for the relation, a model the project declares
NoThrough == "absent"
AutoCreated == "auto_created"
Declared == "declared"

\* remote_field.model._meta.db_table of a field without a relation
NoTable == "no_table"

Field(cls, column, null, pk, unique, index, check, default, remote) ==
    [cls |-> cls, column |-> column, null |-> null, primary_key |-> pk,
     unique |-> unique, db_index |-> index, check |-> check,
     default |-> default, remote_field |-> remote, through |-> NoThrough,
     to_table |-> IF remote THEN TableP ELSE NoTable]

----------------------------------------------------------------------------
(* Statements and the engine *)

\* one call of self.execute: the template, its parameters, and whether the
\* engine accepted it
Stmt(o, table) ==
    [op |-> o, table |-> table, name |-> NoName, column |-> NoColumn,
     columns |-> << >>, to |-> NoColumn, arg |-> "", text |-> << >>,
     start |-> 0, fill |-> NULL, null |-> TRUE, primary_key |-> FALSE,
     unique |-> FALSE, at |-> "", ok |-> TRUE]

\* self._create_index_name(model, [column], suffix)
create_index_name(table, column, suffix) == <<table, column, suffix>>

Constraint(name, table, kind, columns) ==
    [name |-> name, table |-> table, columns |-> columns,
     primary_key |-> (kind = "pk"), unique |-> (kind = "unique"),
     index |-> (kind = "index"), check |-> (kind = "check"),
     foreign_key |-> (kind = "fk")]

Range(s) == {s[i] : i \in 1..Len(s)}

RECURSIVE SelectSeqBy(_, _)
SelectSeqBy(s, keep) ==
    IF s = <<>> THEN <<>>
    ELSE IF Head(s) \in keep THEN <<Head(s)>> \o SelectSeqBy(Tail(s), keep)
         ELSE SelectSeqBy(Tail(s), keep)

\* connection.introspection.get_constraints(cursor, table)
get_constraints(d, table) ==
    SelectSeqBy(d.cons, {c \in Range(d.cons) : c.table = table})

ConsNames(d) == {c.name : c \in Range(d.cons)}
HasPk(d, table) == \E c \in Range(d.cons) : c.table = table /\ c.primary_key

\* a column of the altered table as the engine holds it
Column(type, null, default, vals) ==
    [type |-> type, null |-> null, default |-> default, vals |-> vals]

Duplicates(vals) ==
    \E i, j \in 1..Len(vals) : i # j /\ vals[i] = vals[j] /\ vals[i] # NULL

HasNull(vals) == \E i \in 1..Len(vals) : vals[i] = NULL

ColsExist(d, table, columns) ==
    table # TableT \/ \A i \in 1..Len(columns) : columns[i] \in DOMAIN d.cols

\* the statements the engine refuses whatever else happens
Rejects(d, s) ==
    CASE s.op = "create_column" ->
           \/ s.column \in DOMAIN d.cols
           \/ ~s.null /\ s.fill = NULL /\ d.nrows > 0
           \/ s.primary_key /\ (HasPk(d, s.table) \/ d.nrows > 1)
           \/ s.unique /\ d.nrows > 1 /\ s.fill # NULL
      [] s.op \in {"delete_column", "alter_column_type", "alter_column_type_from_int_to_auto",
                   "alter_column_null", "alter_column_default", "drop_default"} ->
           s.table = TableT /\ s.column \notin DOMAIN d.cols
      [] s.op = "alter_column_not_null" ->
           s.table = TableT /\
             (s.column \notin DOMAIN d.cols \/ HasNull(d.cols[s.column].vals))
      [] s.op = "rename_column" ->
           s.column \notin DOMAIN d.cols \/ s.to \in DOMAIN d.cols
      [] s.op = "update" ->
           s.column \notin DOMAIN d.cols \/ s.to \notin DOMAIN d.cols
      [] s.op \in {"delete_pk", "delete_unique", "delete_check", "delete_fk"} ->
           ~\E c \in Range(d.cons) : c.name = s.name /\ c.table = s.table
      [] s.op = "delete_index" ->
           s.name \notin ConsNames(d)
      [] s.op = "drop_pk" ->
           ~HasPk(d, s.table)
      [] s.op = "create_pk" ->
           \/ HasPk(d, s.table)
           \/ s.name \in ConsNames(d)
           \/ ~ColsExist(d, s.table, s.columns)
           \/ /\ s.table = TableT
              /\ Len(s.columns) = 1
              /\ s.columns[1] \in DOMAIN d.cols
              /\ \/ HasNull(d.cols[s.columns[1]].vals)
                 \/ Duplicates(d.cols[s.columns[1]].vals)
      [] s.op = "create_unique" ->
           \/ s.name \in ConsNames(d)
           \/ ~ColsExist(d, s.table, s.columns)
           \/ /\ s.table = TableT
              /\ Len(s.columns) = 1
              /\ s.columns[1] \in DOMAIN d.cols
              /\ Duplicates(d.cols[s.columns[1]].vals)
      [] s.op \in {"create_index", "create_check", "create_fk"} ->
           s.name \in ConsNames(d) \/ ~ColsExist(d, s.table, s.columns)
      [] OTHER -> FALSE

Restrict(f, S) == [x \in S |-> f[x]]

AddPending(d, table) ==
    IF table \in Range(d.pend) THEN d ELSE [d EXCEPT !.pend = Append(@, table)]

RenameIn(columns, old, new) ==
    [i \in 1..Len(columns) |-> IF columns[i] = old THEN new ELSE columns[i]]

\* the state of the engine after it has accepted statement s
Apply(d, s) ==
    CASE s.op = "create_column" ->
           [d EXCEPT !.cols = [c \in DOMAIN d.cols \cup {s.column} |->
                IF c = s.column
                  THEN Column(s.arg, s.null, NOT_PROVIDED,
                              [i \in 1..d.nrows |-> s.fill])
                  ELSE d.cols[c]],
                     !.cons = @ \o
                       (IF s.primary_key
                          THEN << Constraint(create_index_name(s.table, s.column, "_inline_pk"),
                                             s.table, "pk", <<s.column>>) >>
                          ELSE IF s.unique
                          THEN << Constraint(create_index_name(s.table, s.column, "_inline_uniq"),
                                             s.table, "unique", <<s.column>>) >>
                          ELSE << >>)]
      [] s.op = "delete_column" ->
           AddPending(
             [d EXCEPT !.cols = Restrict(@, DOMAIN @ \ {s.column}),
                       !.cons = SelectSeqBy(@, {c \in Range(@) :
                                  ~(c.table = s.table /\ s.column \in Range(c.columns))})],
             s.table)
      [] s.op = "rename_column" ->
           [d EXCEPT !.cols = [c \in (DOMAIN d.cols \ {s.column}) \cup {s.to} |->
                                 IF c = s.to THEN d.cols[s.column] ELSE d.cols[c]],
                     !.cons = [i \in 1..Len(d.cons) |->
                                 IF d.cons[i].table = s.table
                                   THEN [d.cons[i] EXCEPT !.columns = RenameIn(@, s.column, s.to)]
                                   ELSE d.cons[i]]]
      [] s.op = "alter_column_type" ->
           AddPending(IF s.table = TableT
                        THEN [d EXCEPT !.cols[s.column].type = s.arg]
                        ELSE d, s.table)
      [] s.op = "alter_column_type_from_int_to_auto" ->
           [d EXCEPT !.cols[s.column].type = "IDENTITY", !.identity_start = s.start]
      [] s.op = "alter_column_not_null" ->
           AddPending(IF s.table = TableT
                        THEN [d EXCEPT !.cols[s.column].null = FALSE]
                        ELSE d, s.table)
      [] s.op = "alter_column_null" ->
           AddPending(IF s.table = TableT
                        THEN [d EXCEPT !.cols[s.column].null = TRUE]
                        ELSE d, s.table)
      [] s.op = "alter_column_default" ->
           [d EXCEPT !.cols[s.column].default = s.text]
      [] s.op = "drop_default" ->
           [d EXCEPT !.cols[s.column].default = NOT_PROVIDED]
      [] s.op = "update" ->
           [d EXCEPT !.cols[s.column].vals = d.cols[s.to].vals]
      [] s.op \in {"delete_pk", "delete_unique", "delete_check", "delete_fk",
                   "delete_index"} ->
           [d EXCEPT !.cons = SelectSeqBy(@, {c \in Range(@) : c.name # s.name})]
      [] s.op = "drop_pk" ->
           [d EXCEPT !.cons = SelectSeqBy(@, {c \in Range(@) :
                                ~(c.table = s.table /\ c.primary_key)})]
      [] s.op = "create_pk" ->
           [d EXCEPT !.cons = Append(@, Constraint(s.name, s.table, "pk", s.columns))]
      [] s.op = "create_unique" ->
           [d EXCEPT !.cons = Append(@, Constraint(s.name, s.table, "unique", s.columns))]
      [] s.op = "create_index" ->
           [d EXCEPT !.cons = Append(@, Constraint(s.name, s.table, "index", s.columns))]
      [] s.op = "create_check" ->
           [d EXCEPT !.cons = Append(@, Constraint(s.name, s.table, "check", s.columns))]
      [] s.op = "create_fk" ->
           [d EXCEPT !.cons = Append(@, Constraint(s.name, s.table, "fk", s.columns))]
      [] s.op = "reorg" ->
           [d EXCEPT !.pend = SelectSeqBy(@, Range(@) \ {s.table})]
      [] OTHER -> d


----------------------------------------------------------------------------
(* self.execute under failures.  A run r carries the engine, the statements
   executed so far in this step, whether an exception is in flight, the
   number of statements executed, the set F of positions at which the
   engine fails the statement for a reason of its own, and the block of
   code the statements belong to. *)

R0(d, F) == [db |-> d, log |-> << >>, ok |-> TRUE, n |-> 0, F |-> F, at |-> pc]

\* the statements that follow are those of the block of code named label
At(r, label) == [r EXCEPT !.at = label]

RECURSIVE Exec(_, _)
\* self.execute(sql) for each statement of stmts, until one raises
Exec(r, stmts) ==
    IF ~r.ok \/ stmts = << >> THEN r
    ELSE LET s == [Head(stmts) EXCEPT !.at = r.at]
             i == r.n + 1
         IN  IF i \in r.F \/ Rejects(r.db, s)
               THEN [r EXCEPT !.log = Append(@, [s EXCEPT !.ok = FALSE]),
                              !.ok = FALSE, !.n = i]
               ELSE Exec([r EXCEPT !.db = Apply(r.db, s),
                                   !.log = Append(@, s), !.n = i],
                         Tail(stmts))

\* a variant in which the except clause lets the exception through
Caught_Reraised(r) == r

\* an except clause took the exception
Caught(r) == [r EXCEPT !.ok = TRUE]
\* raise
Raise(r) == [r EXCEPT !.ok = FALSE]

\* a variant of the query that returns its first row alone
checkReorgSQL_FirstRow(d) == IF d.pend = << >> THEN << >> ELSE << Head(d.pend) >>

\* the rows of sysibmadm.admintabinfo with reorg_pending = 'Y'
checkReorgSQL(d) == d.pend

\* _reorg_tables
reorg_tables(r) ==
    IF ~r.ok THEN r
    ELSE LET res == checkReorgSQL(r.db)
             reorgSQLs == [i \in 1..Len(res) |-> Stmt("reorg", res[i])]
         IN  Exec(r, reorgSQLs)

\* a variant in which sql_create_pk is the template alone
sql_create_pk_TemplateOnly(r) == r

\* the property sql_create_pk: a reorganization pass, then the template
sql_create_pk(r) == reorg_tables(r)

\* the positions at which at most one statement of a step fails
FailOne(n) == {{}} \cup {{i} : i \in 1..n}

\* the value an added column takes in the existing rows
DefaultValue(f) == IF has_default(f) THEN <<1>> ELSE NULL

\* BaseDatabaseSchemaEditor.add_field: one ADD COLUMN with the definition of
\* the field as it is at the call
base_add_field(r, field) ==
    Exec(r, << [Stmt("create_column", TableT) EXCEPT
                  !.column = field.column, !.arg = db_type(field.cls),
                  !.fill = DefaultValue(field), !.null = field.null,
                  !.primary_key = field.primary_key,
                  !.unique = field.unique] >>)

\* a variant of the lookup that reports no primary key
primary_keys_none(d, table) == << >>

\* cur.connection.primary_keys(True, schema, table)
primary_keys(d, table) ==
    LET cs == get_constraints(d, table)
    IN  SelectSeqBy(cs, {c \in Range(cs) : c.primary_key})

\* add_field(model, field)
add_field(r, field) ==
    LET notnull == ~field.null
        p_key == field.primary_key
        unique == field.unique
        \* lines 476-480
        cleared == [field EXCEPT !.null = TRUE, !.primary_key = FALSE, !.unique = FALSE]
        del_column == [Stmt("delete_column", TableT) EXCEPT !.column = field.column]
        \* try: self.execute(sql); self._reorg_tables()
        \* except Error as e: self.execute(del_column); raise e
        Try(rr, sql) ==
            IF ~rr.ok THEN rr
            ELSE LET t == reorg_tables(Exec(rr, <<sql>>))
                 IN  IF t.ok THEN t
                     ELSE Raise(Exec(At(Caught(t), "del_column"), <<del_column>>))
        r1 == reorg_tables(At(base_add_field(At(r, "add_column"), cleared), "reorg"))
        r2 == IF notnull
                THEN Try(At(r1, "not_null"),
                         [Stmt("alter_column_not_null", TableT) EXCEPT
                            !.column = field.column])
                ELSE r1
        other_pk == IF r2.ok THEN primary_keys(r2.db, TableT) ELSE << >>
        r3 == Exec(At(r2, "other_pk"),
                   [i \in 1..Len(other_pk) |->
                      [Stmt("delete_pk", TableT) EXCEPT !.name = other_pk[i].name]])
        r4 == Try(At(sql_create_pk(At(r3, "reorg_pk")), "create_pk"),
                  [Stmt("create_pk", TableT) EXCEPT
                     !.name = create_index_name(TableT, field.column, "_pk"),
                     !.columns = <<field.column>>])
        r5 == Try(At(r2, "create_unique"),
                  [Stmt("create_unique", TableT) EXCEPT
                     !.name = create_index_name(TableT, field.column, "_uniq"),
                     !.columns = <<field.column>>])
    IN  IF notnull \/ unique \/ p_key
          THEN IF p_key THEN r4 ELSE IF unique THEN r5 ELSE r2
          ELSE r1

\* BaseDatabaseSchemaEditor.remove_field(model, field)
remove_field(r, field) ==
    LET cs == IF r.ok THEN get_constraints(r.db, TableT) ELSE << >>
        fks == SelectSeqBy(cs, {c \in Range(cs) :
                  c.foreign_key /\ c.columns = <<field.column>>})
        drops == IF field.remote_field
                   THEN [i \in 1..Len(fks) |->
                           [Stmt("delete_fk", TableT) EXCEPT !.name = fks[i].name]]
                   ELSE << >>
    IN  Exec(At(r, "remove_field"),
             drops \o << [Stmt("delete_column", TableT) EXCEPT
                            !.column = field.column] >>)

\* alterFieldDataTypeByRemaking: the run, and the pair of fields it returns
tmp_new_field(new) == [new EXCEPT !.column = psudo_column_prefix \o new.column]

\* a variant that drops the old column without copying its values
alterFieldDataTypeByRemaking_NoCopy(r, old, new) ==
    remove_field(add_field(r, tmp_new_field(new)), old)

alterFieldDataTypeByRemaking(r, old, new) ==
    LET tmp == tmp_new_field(new)
        r1 == add_field(r, tmp)
        r2 == Exec(At(r1, "update"),
                   << [Stmt("update", TableT) EXCEPT
                         !.column = tmp.column, !.to = old.column] >>)
    IN  remove_field(r2, old)


----------------------------------------------------------------------------
(* alter_field, one action per block of the method *)

NoFlags ==
    [alter_field_data_type |-> FALSE, alter_field_nullable |-> FALSE,
     alter_field_default |-> FALSE, alter_field_primary_key |-> FALSE,
     alter_field_name |-> FALSE, alter_field_check_constraint |-> FALSE,
     alter_field_unique |-> FALSE, alter_field_index |-> FALSE,
     rebuild_incomming_fk |-> FALSE, alter_incomming_fk_data_type |-> FALSE]

NoDeferred == [pk |-> << >>, unique |-> << >>, index |-> << >>, check |-> << >>]

\* self._constraint_names(model, [column], <kind>=True)
constraint_names(d, table, column, kind) ==
    LET cs == get_constraints(d, table)
        hit == SelectSeqBy(cs, {c \in Range(cs) :
                  /\ c.columns = <<column>>
                  /\ CASE kind = "pk" -> c.primary_key
                       [] kind = "unique" -> c.unique
                       [] kind = "index" -> c.index
                       [] kind = "check" -> c.check
                       [] OTHER -> c.foreign_key})
    IN  [i \in 1..Len(hit) |-> hit[i].name]

\* a variant of the condition of line 146 that tests the old field alone
UniqueDropApplies_OldUnique(fl, old) == old.unique

\* the condition of line 146
UniqueDropApplies(fl, old) ==
    \/ fl.alter_field_unique /\ old.unique
    \/ (old.unique /\ fl.alter_field_primary_key /\ ~old.primary_key)

\* the if-condition that opens the block of alter_field at label p
Applies(p, fl, old, new, inc) ==
    CASE p = "drop_pk" -> fl.alter_field_primary_key /\ old.primary_key
      [] p = "drop_unique" -> UniqueDropApplies(fl, old)
      [] p = "drop_index" -> fl.alter_field_index /\ old.db_index
      [] p = "drop_check" -> fl.alter_field_check_constraint /\ old.check # None
      [] p = "drop_null" -> fl.alter_field_nullable /\ old.null
      [] p = "drop_fk" -> old.remote_field
      [] p = "drop_incoming" ->
           (fl.alter_field_name \/ fl.alter_field_data_type)
             /\ old.primary_key /\ new.primary_key
      [] p \in {"defer", "restore"} -> fl.alter_field_name \/ fl.alter_field_data_type
      [] p = "rename" -> fl.alter_field_name
      [] p = "alter_type" -> fl.alter_field_data_type
      [] p = "alter_default" -> fl.alter_field_default
      [] p = "alter_null" -> fl.alter_field_nullable
      [] p = "add_check" -> fl.alter_field_check_constraint /\ new.check # None
      [] p = "add_key" ->
           \/ fl.alter_incomming_fk_data_type
           \/ fl.alter_field_primary_key /\ new.primary_key
           \/ fl.alter_field_unique /\ new.unique
           \/ fl.alter_field_index /\ new.db_index
      [] p = "update_incoming" -> Len(inc) > 0
      [] p = "create_fk" -> new.remote_field
      [] p = "rebuild_incoming" -> fl.rebuild_incomming_fk
      [] OTHER -> TRUE

Blocks ==
    <<"drop_pk", "drop_unique", "drop_index", "drop_check", "drop_null",
      "drop_fk", "drop_incoming", "defer", "rename", "alter_type", "restore",
      "alter_default", "alter_null", "add_check", "add_key", "update_incoming",
      "create_fk", "rebuild_incoming", "done">>

\* the blocks with the NOT NULL change ahead of the check constraints
BlocksNullFirst ==
    [i \in 1..Len(Blocks) |->
       CASE Blocks[i] = "drop_check" -> "drop_null"
         [] Blocks[i] = "drop_null" -> "drop_check"
         [] OTHER -> Blocks[i]]

RECURSIVE WalkFrom(_, _, _, _, _, _)
WalkFrom(blocks, k, fl, old, new, inc) ==
    IF blocks[k] = "done" \/ Applies(blocks[k], fl, old, new, inc) THEN blocks[k]
    ELSE WalkFrom(blocks, k + 1, fl, old, new, inc)

\* a variant in which control goes through the blocks of BlocksNullFirst
Forward_NullFirst(p, fl, old, new, inc) ==
    IF p \notin Range(Blocks) THEN p
    ELSE LET k == CHOOSE i \in 1..Len(Blocks) : Blocks[i] = p
         IN  IF k = 1 THEN WalkFrom(BlocksNullFirst, 1, fl, old, new, inc)
             ELSE LET j == CHOOSE i \in 1..Len(Blocks) :
                             BlocksNullFirst[i] = Blocks[k - 1]
                  IN  WalkFrom(BlocksNullFirst, j + 1, fl, old, new, inc)

RECURSIVE Forward(_, _, _, _, _)
\* control falls through the blocks whose condition is false
Forward(p, fl, old, new, inc) ==
    IF p \notin Range(Blocks) \/ p = "done" \/ Applies(p, fl, old, new, inc) THEN p
    ELSE LET i == CHOOSE k \in 1..Len(Blocks) : Blocks[k] = p
         IN  Forward(Blocks[i + 1], fl, old, new, inc)

\* a variant in which the call goes on after a statement that failed
Step_GoesOn(r, next) ==
    /\ db' = r.db
    /\ trace' = trace \o r.log
    /\ pc' = Forward(next, flags', old_field', new_field', incoming_relations')
    /\ err' = err

\* the end of a block: the statements reach the trace, an exception ends the call
Step(r, next) ==
    /\ db' = r.db
    /\ trace' = trace \o r.log
    /\ pc' = IF r.ok
               THEN Forward(next, flags', old_field', new_field', incoming_relations')
               ELSE "error"
    /\ err' = IF r.ok THEN err ELSE [kind |-> "statement", at |-> pc]

\* raise ValueError(...) of a strict-mode check
Invalid ==
    /\ pc' = "error"
    /\ err' = [kind |-> "validation", at |-> pc]
    /\ UNCHANGED <<db, trace>>

Skip(next) ==
    /\ pc' = Forward(next, flags', old_field', new_field', incoming_relations')
    /\ UNCHANGED <<db, trace, err>>

\* a variant of the condition of line 96 that leaves AutoField to IntegerField
\* to the direct path
NeedsRemaking_ExceptAutoToInteger(old, new) ==
    /\ db_type(old.cls) # db_type(new.cls)
    /\ (IsAutoField(old) \/ IsTextField(old) \/ IsTextField(new))
    /\ ~(IsAutoField(old) /\ IsIntegerField(new))

\* a variant of the condition of line 96 that tests both fields for AutoField
NeedsRemaking_EitherSide(old, new) ==
    /\ db_type(old.cls) # db_type(new.cls)
    /\ (IsAutoField(old) \/ IsTextField(old) \/ IsAutoField(new) \/ IsTextField(new))

\* the condition of line 96: the datatype changes and the field is remade
NeedsRemaking(old, new) ==
    /\ db_type(old.cls) # db_type(new.cls)
    /\ (IsAutoField(old) \/ IsTextField(old) \/ IsTextField(new))

\* lines 95-108
Locals == <<op, strict, old_field, new_field, orig_old, orig_new, flags,
            deferred_constraints, incoming_relations, rels, db0>>

\* field.remote_field is not None and hasattr(field.remote_field, 'through')
HasThrough(f) == f.remote_field /\ f.through # NoThrough

\* lines 81-85: the evaluation of new_field.remote_field.through raises
\* AttributeError when the new field has no relation or a relation without
\* the attribute
RelConditionRaises(old, new) == HasThrough(old) /\ ~HasThrough(new)

\* lines 81-85 when the evaluation returns
rel_condition(old, new) ==
    /\ HasThrough(old)
    /\ old.through = AutoCreated /\ new.through = AutoCreated

\* line 89: old_db_field_type is None or new_db_field_type is None
Incompatible(old, new) ==
    db_type(old.cls) = NoType \/ db_type(new.cls) = NoType

\* lines 87-88
ToManyToMany(old, new) ==
    /\ db_type(old.cls) = NoType /\ db_type(new.cls) = NoType
    /\ rel_condition(old, new)

\* control passes line 93
Ordinary(old, new) ==
    /\ ~RelConditionRaises(old, new)
    /\ ~ToManyToMany(old, new)
    /\ ~Incompatible(old, new)

\* lines 76-93 for the calls that do not reach line 95
Dispatch ==
    /\ op = "alter_field" /\ pc = "start"
    /\ ~Ordinary(old_field, new_field)
    /\ UNCHANGED Locals
    /\ UNCHANGED <<db, trace>>
    /\ IF RelConditionRaises(old_field, new_field)
         THEN /\ pc' = "error"
              /\ err' = [kind |-> "attribute", at |-> pc]
         ELSE IF ToManyToMany(old_field, new_field)
         THEN /\ pc' = "many_to_many"
              /\ err' = err
         ELSE /\ pc' = "error"
              /\ err' = [kind |-> "cannot_alter", at |-> pc]

Remake ==
    /\ op = "alter_field" /\ pc = "start"
    /\ Ordinary(old_field, new_field)
    /\ NeedsRemaking(old_field, new_field)
    /\ UNCHANGED <<op, strict, new_field, orig_old, orig_new,
                   deferred_constraints, incoming_relations, rels, db0>>
    /\ flags' =
         IF old_field.primary_key /\ new_field.primary_key
           THEN [flags EXCEPT
                   !.rebuild_incomming_fk = TRUE,
                   !.alter_incomming_fk_data_type =
                      ~(IsAutoField(old_field) /\ IsIntegerField(new_field))]
           ELSE flags
    /\ old_field' = tmp_new_field(new_field)
    /\ \E F \in FailOne(Len(db.pend) + 12) :
         Step(alterFieldDataTypeByRemaking(R0(db, F), old_field, new_field), "flags")

\* lines 110-130
ComputeFlags ==
    /\ \/ pc = "flags"
       \/ /\ op = "alter_field" /\ pc = "start"
          /\ Ordinary(old_field, new_field)
          /\ ~NeedsRemaking(old_field, new_field)
    /\ flags' = [flags EXCEPT
          !.alter_field_data_type = (db_type(old_field.cls) # db_type(new_field.cls)),
          !.alter_field_name = (old_field.column # new_field.column),
          !.alter_field_index = (old_field.db_index # new_field.db_index),
          !.alter_field_unique = (old_field.unique # new_field.unique),
          !.alter_field_primary_key = (old_field.primary_key # new_field.primary_key),
          !.alter_field_check_constraint = (old_field.check # new_field.check),
          !.alter_field_nullable = (old_field.null # new_field.null),
          !.alter_field_default =
              (has_default(old_field) /\
               effective_default(old_field) # effective_default(new_field))]
    /\ UNCHANGED <<op, strict, old_field, new_field, orig_old, orig_new,
                   deferred_constraints, incoming_relations, rels, db0>>
    /\ Skip("drop_pk")


\* line 136: strict mode finds no primary key
pk_missing(n) == n = 0

\* a variant of the count test that accepts any number of constraints but zero
wrong_number_zero(n) == n = 0

\* lines 148, 164, 178: strict mode finds a number of constraints other than one
wrong_number(n) == n # 1

\* lines 132-142
DropPrimaryKey ==
    /\ pc = "drop_pk"
    /\ UNCHANGED Locals
    /\ IF flags.alter_field_primary_key /\ old_field.primary_key
         THEN IF strict /\ pk_missing(Len(constraint_names(db, TableT, old_field.column, "pk")))
                THEN Invalid
                ELSE \E F \in FailOne(1) :
                       Step(Exec(R0(db, F), <<Stmt("drop_pk", TableT)>>), "drop_unique")
         ELSE Skip("drop_unique")

DeleteAll(o, table, names) ==
    [i \in 1..Len(names) |-> [Stmt(o, table) EXCEPT !.name = names[i]]]

\* lines 144-159
DropUnique ==
    /\ pc = "drop_unique"
    /\ UNCHANGED Locals
    /\ IF UniqueDropApplies(flags, old_field)
         THEN LET unique_key_names == constraint_names(db, TableT, old_field.column, "unique")
              IN  IF strict /\ wrong_number(Len(unique_key_names))
                    THEN Invalid
                    ELSE \E F \in FailOne(Len(unique_key_names)) :
                           Step(Exec(R0(db, F),
                                     DeleteAll("delete_unique", TableT, unique_key_names)),
                                "drop_index")
         ELSE Skip("drop_index")

\* lines 161-173
DropIndex ==
    /\ pc = "drop_index"
    /\ UNCHANGED Locals
    /\ IF flags.alter_field_index /\ old_field.db_index
         THEN LET index_names == constraint_names(db, TableT, old_field.column, "index")
              IN  IF strict /\ wrong_number(Len(index_names))
                    THEN Invalid
                    ELSE \E F \in FailOne(Len(index_names)) :
                           Step(Exec(R0(db, F),
                                     DeleteAll("delete_index", TableT, index_names)),
                                "drop_check")
         ELSE Skip("drop_check")

\* lines 175-188
DropCheck ==
    /\ pc = "drop_check"
    /\ UNCHANGED Locals
    /\ IF flags.alter_field_check_constraint /\ old_field.check # None
         THEN LET check_constraint_names ==
                      constraint_names(db, TableT, old_field.column, "check")
              IN  IF strict /\ wrong_number(Len(check_constraint_names))
                    THEN Invalid
                    ELSE \E F \in FailOne(Len(check_constraint_names)) :
                           Step(Exec(R0(db, F),
                                     DeleteAll("delete_check", TableT, check_constraint_names)),
                                "drop_null")
         ELSE Skip("drop_null")

\* lines 190-198
DropNull ==
    /\ pc = "drop_null"
    /\ UNCHANGED Locals
    /\ IF flags.alter_field_nullable /\ old_field.null
         THEN \E F \in FailOne(1) :
                Step(Exec(R0(db, F),
                          << [Stmt("alter_column_not_null", TableT) EXCEPT
                                !.column = old_field.column] >>),
                     "drop_fk")
         ELSE Skip("drop_fk")

\* lines 200-210
DropForeignKeys ==
    /\ pc = "drop_fk"
    /\ UNCHANGED Locals
    /\ IF old_field.remote_field
         THEN LET fk_names == constraint_names(db, TableT, old_field.column, "fk")
              IN  \E F \in FailOne(Len(fk_names)) :
                    Step(Exec(R0(db, F), DeleteAll("delete_fk", TableT, fk_names)),
                         "drop_incoming")
         ELSE Skip("drop_incoming")


RECURSIVE IncomingDrops(_, _)
\* lines 217-225: one delete per foreign key found on each incoming relation
IncomingDrops(d, relations) ==
    IF relations = << >> THEN << >>
    ELSE DeleteAll("delete_fk", Head(relations).table,
                   constraint_names(d, Head(relations).table,
                                    Head(relations).column, "fk"))
         \o IncomingDrops(d, Tail(relations))

\* lines 214-225: the foreign keys of other tables that reference the column
DropIncomingForeignKeys ==
    /\ pc = "drop_incoming"
    /\ flags.alter_field_name \/ flags.alter_field_data_type
    /\ old_field.primary_key /\ new_field.primary_key
    /\ UNCHANGED <<op, strict, old_field, new_field, orig_old, orig_new,
                   deferred_constraints, incoming_relations, rels, db0>>
    /\ flags' = [flags EXCEPT !.rebuild_incomming_fk = TRUE]
    /\ LET drops == IncomingDrops(db, rels)
       IN  \E F \in FailOne(Len(drops)) :
             Step(Exec(R0(db, F), drops), "defer")

Entry(c) == [name |-> c.name, columns |-> c.columns]

RECURSIVE defer_loop(_, _, _, _, _, _)
\* the loop of _defer_constraints_check over constraints.items()
defer_loop(r, dc, constraints, column, table, kinds) ==
    IF ~r.ok \/ constraints = << >> THEN [r |-> r, dc |-> dc]
    ELSE
      LET c == Head(constraints)
          covers == column \in Range(c.columns)
          del(o) == << [Stmt(o, table) EXCEPT !.name = c.name] >>
      IN
      IF "pk" \in kinds /\ c.primary_key /\ covers
        THEN LET t == Exec(r, del("delete_pk"))
             IN  defer_loop(t, IF t.ok THEN [dc EXCEPT !.pk = Append(@, Entry(c))] ELSE dc,
                            Tail(constraints), column, table, kinds)
      ELSE IF "unique" \in kinds /\ c.unique /\ covers
        THEN LET t == Exec(r, del("delete_unique"))
             IN  defer_loop(Caught(t),
                            IF t.ok THEN [dc EXCEPT !.unique = Append(@, Entry(c))] ELSE dc,
                            Tail(constraints), column, table, kinds)
      ELSE
        LET isIndex == "index" \in kinds /\ c.index /\ covers
            isCheck == "check" \in kinds /\ c.check /\ covers
            t1 == IF isIndex THEN Exec(r, del("delete_index")) ELSE r
            dc1 == IF isIndex /\ t1.ok THEN [dc EXCEPT !.index = Append(@, Entry(c))] ELSE dc
            t2 == IF isCheck THEN Exec(Caught(t1), del("delete_check")) ELSE Caught(t1)
            dc2 == IF isCheck /\ t2.ok THEN [dc1 EXCEPT !.check = Append(@, Entry(c))] ELSE dc1
        IN  defer_loop(t2, dc2, Tail(constraints), column, table, kinds)

\* _defer_constraints_check
defer_constraints_check(r, constraints, dc, column, table, kinds) ==
    defer_loop(r, dc, constraints, column, table, kinds)

\* lines 227-231
DeferConstraints ==
    /\ pc = "defer"
    /\ flags.alter_field_name \/ flags.alter_field_data_type
    /\ UNCHANGED <<op, strict, old_field, new_field, orig_old, orig_new, flags,
                   incoming_relations, rels, db0>>
    /\ LET constraints == get_constraints(db, TableT)
       IN  \E F \in SUBSET (1..Len(constraints)) :
             LET res == defer_constraints_check(R0(db, F), constraints,
                           deferred_constraints, old_field.column, TableT,
                           {"pk", "unique", "index", "check"})
             IN  /\ Step(res.r, "rename")
                 /\ deferred_constraints' = res.dc

\* lines 233-241
RenameColumn ==
    /\ pc = "rename"
    /\ UNCHANGED Locals
    /\ IF flags.alter_field_name
         THEN \E F \in FailOne(1) :
                Step(Exec(R0(db, F),
                          << [Stmt("rename_column", TableT) EXCEPT
                                !.column = old_field.column,
                                !.to = new_field.column] >>),
                     "alter_type")
         ELSE Skip("alter_type")

RECURSIVE MaxOf(_)
\* SELECT MAX(column): None over no rows or only NULLs
MaxOf(vals) ==
    IF vals = << >> THEN NULL
    ELSE LET m == MaxOf(Tail(vals))
             v == Head(vals)
         IN  IF v = NULL THEN m
             ELSE IF m = NULL THEN v
             ELSE IF v[1] > m[1] THEN v ELSE m

\* a variant of the start value that restarts the identity at the maximum
IdentityStart_AtMax(fetched) == IF fetched = NULL THEN 1 ELSE fetched[1]

\* lines 265-269 and 283: the start value of the identity
IdentityStart(fetched) == (IF fetched = NULL THEN 0 ELSE fetched[1]) + 1

\* lines 250-301: the statements of the datatype change
AlterTypeStatements(d, old, new) ==
    LET col == new.column
        dropdef == IF has_default(old) /\ effective_default(old) # None
                     THEN << [Stmt("drop_default", TableT) EXCEPT !.column = col] >>
                     ELSE << >>
        toint == IF ~IsIntegerField(old)
                   THEN << [Stmt("alter_column_type", TableT) EXCEPT
                              !.column = col, !.arg = "INTEGER"] >>
                   ELSE << >>
        fetched == IF col \in DOMAIN d.cols THEN MaxOf(d.cols[col].vals) ELSE NULL
    IN  IF IsAutoField(new)
          THEN dropdef \o toint \o
               << [Stmt("alter_column_type_from_int_to_auto", TableT) EXCEPT
                     !.column = col, !.start = IdentityStart(fetched)] >>
          ELSE dropdef \o
               << [Stmt("alter_column_type", TableT) EXCEPT
                     !.column = col, !.arg = db_type(new.cls)] >>

\* lines 243-301
AlterType ==
    /\ pc = "alter_type"
    /\ flags.alter_field_data_type
    /\ UNCHANGED <<op, strict, old_field, new_field, orig_old, orig_new,
                   deferred_constraints, incoming_relations, rels, db0>>
    /\ flags' =
         IF old_field.primary_key /\ new_field.primary_key
              /\ ~(IsAutoField(new_field) /\ IsIntegerField(old_field))
           THEN [flags EXCEPT !.alter_incomming_fk_data_type = TRUE]
           ELSE flags
    /\ \E F \in FailOne(3) :
         Step(Exec(R0(db, F), AlterTypeStatements(db, old_field, new_field)),
              "restore")

RECURSIVE StrReplace(_, _, _)
\* str.replace(old, new)
StrReplace(str, old, new) ==
    IF Len(str) < Len(old) \/ Len(old) = 0 THEN str
    ELSE IF SubSeq(str, 1, Len(old)) = old
           THEN new \o StrReplace(SubSeq(str, Len(old) + 1, Len(str)), old, new)
           ELSE <<Head(str)>> \o StrReplace(Tail(str), old, new)

\* a variant of the replacement that keeps only the columns that were renamed
ReplacedColumns_OnlyRenamed(columns, old, new) ==
    SelectSeqBy(columns, {old})

\* column.replace(old_field.column, new_field.column) for column in columns
ReplacedColumns(columns, old, new) ==
    [i \in 1..Len(columns) |-> StrReplace(columns[i], old, new)]

RECURSIVE restore_pks(_, _, _, _, _)
\* the first loop of _restore_constraints_check: sql_create_pk is read, and
\* reorganizes, once per primary key
restore_pks(r, pks, old, new, table) ==
    IF ~r.ok \/ pks = << >> THEN r
    ELSE restore_pks(
           Exec(sql_create_pk(r),
                << [Stmt("create_pk", table) EXCEPT
                      !.name = Head(pks).name,
                      !.columns = ReplacedColumns(Head(pks).columns, old, new)] >>),
           Tail(pks), old, new, table)

\* a variant of the re-creation that names the constraint after the new column
Recreate_Renamed(o, entries, old, new, table) ==
    [i \in 1..Len(entries) |->
       [Stmt(o, table) EXCEPT
          !.name = create_index_name(table, new, "_uniq"),
          !.columns = ReplacedColumns(entries[i].columns, old, new)]]

\* the loops of _restore_constraints_check over 'unique' and 'index'
Recreate(o, entries, old, new, table) ==
    [i \in 1..Len(entries) |->
       [Stmt(o, table) EXCEPT
          !.name = entries[i].name,
          !.columns = ReplacedColumns(entries[i].columns, old, new)]]

\* _restore_constraints_check
restore_constraints_check(r, dc, old, new, table) ==
    Exec(Exec(restore_pks(r, dc.pk, old, new, table),
              Recreate("create_unique", dc.unique, old, new, table)),
         Recreate("create_index", dc.index, old, new, table))

\* lines 303-304
RestoreConstraints ==
    /\ pc = "restore"
    /\ flags.alter_field_name \/ flags.alter_field_data_type
    /\ UNCHANGED Locals
    /\ \E F \in FailOne(Len(deferred_constraints.pk) * (Len(db.pend) + 1)
                        + Len(deferred_constraints.unique)
                        + Len(deferred_constraints.index)) :
         Step(restore_constraints_check(R0(db, F), deferred_constraints,
                                        old_field.column, new_field.column, TableT),
              "alter_default")

\* field.remote_field.through._meta.db_table of a many-to-many field
TableM == "M"
\* the column of through._meta.get_field(field.m2m_reverse_field_name())
ColReverse == <<"t", "o">>
\* the column of the through table that refers to the model of the field
ColFrom == <<"f", "r">>

\* the sql_delete_fk statements of lines 568-573
DeleteForeignKeys(constraints) ==
    LET fks == SelectSeq(constraints, LAMBDA c : c.foreign_key)
    IN  [i \in 1..Len(fks) |->
           [Stmt("delete_fk", TableM) EXCEPT !.name = fks[i].name]]

\* lines 547-576 of _alter_many_to_many
AlterManyToMany ==
    /\ pc = "many_to_many"
    /\ UNCHANGED <<op, strict, old_field, new_field, orig_old, orig_new, flags,
                   incoming_relations, rels, db0>>
    /\ LET constraints == get_constraints(db, TableM)
       IN  \E F \in FailOne(2 * Len(constraints) + Len(db.pend)) :
             LET dropped == Exec(R0(db, F), DeleteForeignKeys(constraints))
                 res == defer_constraints_check(dropped, constraints,
                           deferred_constraints, ColReverse, TableM,
                           {"pk", "unique", "index"})
             IN  /\ Step(reorg_tables(res.r), "base_many_to_many")
                 /\ deferred_constraints' = res.dc

\* line 577: the method of the base class returns or raises; its statements
\* on the through table are outside this module
BaseAlterManyToMany ==
    /\ pc = "base_many_to_many"
    /\ UNCHANGED Locals
    /\ UNCHANGED <<db, trace>>
    /\ \E raised \in BOOLEAN :
         IF raised
           THEN /\ pc' = "error"
                /\ err' = [kind |-> "base", at |-> pc]
           ELSE /\ pc' = "restore_many_to_many"
                /\ err' = err

\* line 578: new_field.rel is an attribute of the Django versions that keep
\* the old name of remote_field, and an AttributeError in the others
RestoreManyToMany ==
    /\ pc = "restore_many_to_many"
    /\ UNCHANGED Locals
    /\ \E has_rel \in BOOLEAN :
         IF has_rel
           THEN \E F \in FailOne(Len(deferred_constraints.pk) * (Len(db.pend) + 1)
                                  + Len(deferred_constraints.unique)
                                  + Len(deferred_constraints.index)) :
                  Step(restore_constraints_check(R0(db, F), deferred_constraints,
                                                 ColReverse, ColReverse, TableM),
                       "done")
           ELSE /\ pc' = "error"
                /\ err' = [kind |-> "attribute", at |-> pc]
                /\ UNCHANGED <<db, trace>>


\* quote_value for a str: quotes doubled, the whole quoted
RECURSIVE escape_quotes(_)
escape_quotes(str) ==
    IF str = << >> THEN << >>
    ELSE (IF Head(str) = "'" THEN <<"'", "'">> ELSE <<Head(str)>>)
         \o escape_quotes(Tail(str))

quote_value(value) == <<"'">> \o escape_quotes(value) \o <<"'">>

prepare_default(value) == quote_value(value)

\* lines 306-327
AlterDefault ==
    /\ pc = "alter_default"
    /\ UNCHANGED Locals
    /\ IF flags.alter_field_default
         THEN IF effective_default(new_field) = None
                THEN IF flags.alter_field_data_type \/ flags.alter_field_nullable
                       THEN Skip("alter_null")
                       ELSE \E F \in FailOne(1) :
                              Step(Exec(R0(db, F),
                                        << [Stmt("drop_default", TableT) EXCEPT
                                              !.column = new_field.column] >>),
                                   "alter_null")
                ELSE \E F \in FailOne(1) :
                       Step(Exec(R0(db, F),
                                 << [Stmt("alter_column_default", TableT) EXCEPT
                                       !.column = new_field.column,
                                       !.text = prepare_default(effective_default(new_field))] >>),
                            "alter_null")
         ELSE Skip("alter_null")

\* lines 329-345
AlterNull ==
    /\ pc = "alter_null"
    /\ UNCHANGED Locals
    /\ IF flags.alter_field_nullable
         THEN \E F \in FailOne(1) :
                Step(Exec(R0(db, F),
                          << [Stmt(IF new_field.null THEN "alter_column_null"
                                                     ELSE "alter_column_not_null", TableT)
                                EXCEPT !.column = new_field.column] >>),
                     "add_check")
         ELSE Skip("add_check")

\* lines 347-356
AddCheck ==
    /\ pc = "add_check"
    /\ UNCHANGED Locals
    /\ IF flags.alter_field_check_constraint /\ new_field.check # None
         THEN \E F \in FailOne(1) :
                Step(Exec(R0(db, F),
                          << [Stmt("create_check", TableT) EXCEPT
                                !.name = create_index_name(TableT, new_field.column, "_check"),
                                !.column = new_field.column,
                                !.columns = <<new_field.column>>,
                                !.text = new_field.check] >>),
                     "add_key")
         ELSE Skip("add_key")

\* new_field.model._meta.get_all_related_objects()
get_all_related_objects == rels

\* lines 357-401
AddKey ==
    /\ pc = "add_key"
    /\ UNCHANGED <<op, strict, old_field, new_field, orig_old, orig_new, flags,
                   deferred_constraints, rels, db0>>
    /\ incoming_relations' =
         (IF flags.alter_incomming_fk_data_type THEN get_all_related_objects ELSE << >>)
         \o (IF flags.alter_field_primary_key /\ new_field.primary_key
               THEN get_all_related_objects ELSE << >>)
    /\ IF flags.alter_field_primary_key /\ new_field.primary_key
         THEN \E F \in SUBSET (1..(Len(db.pend) + 2)) :
                LET r1 == Caught(Exec(R0(db, F), <<Stmt("drop_pk", TableT)>>))
                    r2 == Exec(sql_create_pk(r1),
                               << [Stmt("create_pk", TableT) EXCEPT
                                     !.name = create_index_name(TableT, new_field.column, "_pk"),
                                     !.columns = <<new_field.column>>] >>)
                IN  Step(r2, "update_incoming")
         ELSE IF flags.alter_field_unique /\ new_field.unique
         THEN \E F \in FailOne(1) :
                Step(Exec(R0(db, F),
                          << [Stmt("create_unique", TableT) EXCEPT
                                !.name = create_index_name(TableT, new_field.column, "_uniq"),
                                !.columns = <<new_field.column>>] >>),
                     "update_incoming")
         ELSE IF flags.alter_field_index /\ new_field.db_index
         THEN \E F \in FailOne(1) :
                Step(Exec(R0(db, F),
                          << [Stmt("create_index", TableT) EXCEPT
                                !.name = create_index_name(TableT, new_field.column, "_index"),
                                !.columns = <<new_field.column>>] >>),
                     "update_incoming")
         ELSE Skip("update_incoming")

\* inc_rel.field.db_parameters(connection)['type']: the type of a column that
\* references the altered one
rel_db_type(f) == IF IsAutoField(f) THEN "INTEGER" ELSE db_type(f.cls)

\* lines 402-419
UpdateIncoming ==
    /\ pc = "update_incoming"
    /\ UNCHANGED Locals
    /\ IF Len(incoming_relations) > 0
         THEN \E F \in FailOne(Len(incoming_relations) + Len(db.pend) + 1) :
                Step(reorg_tables(
                       Exec(R0(db, F),
                            [i \in 1..Len(incoming_relations) |->
                               [Stmt("alter_column_type", incoming_relations[i].table) EXCEPT
                                  !.column = incoming_relations[i].column,
                                  !.arg = rel_db_type(new_field)]])),
                     "create_fk")
         ELSE Skip("create_fk")

\* a variant that always references the same table
sql_create_fk_FixedTarget(field) ==
    [Stmt("create_fk", TableT) EXCEPT
       !.name = create_index_name(TableT, field.column, "_fk"),
       !.column = field.column,
       !.columns = <<field.column>>,
       !.arg = TableP,
       !.to = ColTarget]

\* lines 435-442: the statement sql_create_fk is formatted to
sql_create_fk(field) ==
    [Stmt("create_fk", TableT) EXCEPT
       !.name = create_index_name(TableT, field.column, "_fk"),
       !.column = field.column,
       !.columns = <<field.column>>,
       !.arg = field.to_table,
       !.to = ColTarget]

\* lines 421-443
CreateForeignKey ==
    /\ pc = "create_fk"
    /\ UNCHANGED Locals
    /\ IF new_field.remote_field
         THEN \E F \in FailOne(1) :
                Step(Exec(R0(db, F), << sql_create_fk(new_field) >>),
                     "rebuild_incoming")
         ELSE Skip("rebuild_incoming")

\* lines 444-455
RebuildIncoming ==
    /\ pc = "rebuild_incoming"
    /\ UNCHANGED Locals
    /\ IF flags.rebuild_incomming_fk
         THEN \E F \in FailOne(Len(rels)) :
                Step(Exec(R0(db, F),
                          [i \in 1..Len(get_all_related_objects) |->
                             [Stmt("create_fk", get_all_related_objects[i].table) EXCEPT
                                !.name = create_index_name(get_all_related_objects[i].table,
                                                           get_all_related_objects[i].column, "_fk"),
                                !.column = get_all_related_objects[i].column,
                                !.columns = <<get_all_related_objects[i].column>>,
                                !.arg = TableT,
                                !.to = new_field.column]]),
                     "done")
         ELSE Skip("done")

\* add_field called by the migration, on new_field
AddField ==
    /\ op = "add_field" /\ pc = "start"
    /\ UNCHANGED Locals
    /\ \E F \in FailOne(Len(db.pend) + 8) :
         Step(add_field(R0(db, F), new_field), "done")


----------------------------------------------------------------------------
(* The calls the model makes *)

\* the number of differences a call starts from: the attributes in which the
\* new definition differs from the old, a catalog that differs from the old
\* definition, and a table that other tables reference
MaxDiff == 2

DefaultA == <<"a">>
DefaultQ == <<"o", "'", "c">>
CheckExpr == <<"c", ">", "0">>

\* the fields Django accepts: a primary key is unique and not nullable, an
\* AutoField is the primary key, only an integer column carries a relation
Fields ==
    {f \in [cls : FieldClasses, column : {ColId, ColNew}, null : BOOLEAN,
            primary_key : BOOLEAN, unique : BOOLEAN, db_index : BOOLEAN,
            check : {None, CheckExpr},
            default : {NOT_PROVIDED, DefaultA, DefaultQ},
            remote_field : BOOLEAN, through : {NoThrough},
            to_table : {NoTable, TableP, TableQ}] :
       /\ f.remote_field = (f.to_table # NoTable)
       /\ f.primary_key => (f.unique /\ ~f.null)
       /\ IsAutoField(f) =>
            (f.primary_key /\ f.default = NOT_PROVIDED /\ f.check = None)
       /\ f.remote_field => (IsIntegerField(f) /\ ~f.primary_key)
       /\ IsTextField(f) => (~f.primary_key /\ ~f.unique /\ ~f.db_index)}

Attributes ==
    {"cls", "column", "null", "primary_key", "unique", "db_index", "check",
     "default", "remote_field"}

\* the attributes that differ; the target of a relation is one of them when
\* both definitions have a relation
Diff(old, new) ==
    {a \in Attributes : old[a] # new[a]}
      \cup (IF old.remote_field /\ new.remote_field /\ old.to_table # new.to_table
              THEN {"to_table"} ELSE {})

OldFields ==
    {f \in Fields : f.column = ColId /\ f.default # DefaultQ /\ f.to_table # TableQ}

Calls ==
    {c \in OldFields \X Fields :
       /\ Cardinality(Diff(c[1], c[2])) <= MaxDiff
       /\ c[2].to_table = TableQ => c[1].remote_field}

\* strict is read only by the blocks of lines 132-188, which a call enters
\* when its primary key, uniqueness, index or check changes
ReadsStrict(old, new) ==
    Diff(old, new) \cap {"primary_key", "unique", "db_index", "check"} # {}

\* the rows of the table are read only by the statements of a call whose
\* datatype, nullability, primary key or uniqueness changes
ReadsRows(old, new) ==
    Diff(old, new) \cap {"cls", "null", "primary_key", "unique"} # {}

Differences(c, anomaly, relations) ==
    Cardinality(Diff(c[1], c[2]))
      + (IF anomaly = "none" THEN 0 ELSE 1)
      + (IF relations = << >> THEN 0 ELSE 1)

\* the rows of the altered column the model starts from
RowChoices == {<< >>, <<NULL>>, <<<<MaxVal>>, <<1>>>>}

RowsFit(f, vals) ==
    /\ ~f.null => ~HasNull(vals)
    /\ f.unique => ~Duplicates(vals)

\* the ForeignKey of another model that refers to the column, declared
\* with or without a database constraint (db_constraint)
Incoming == << [table |-> TableR, column |-> ColRef, db_constraint |-> TRUE] >>
IncomingUnconstrained ==
    << [table |-> TableR, column |-> ColRef, db_constraint |-> FALSE] >>

\* the constraints of the schema for a column created from field f; the
\* catalog may lack the constraints of the definition ("missing") or hold
\* a second unique constraint, index and check on the column ("extra")
InitConstraints(f, anomaly, relations) ==
    LET col == f.column
        one(kind, suffix) ==
            << Constraint(create_index_name(TableT, col, suffix), TableT, kind, <<col>>) >>
        two(kind, suffix) ==
            IF anomaly = "extra"
              THEN << Constraint(create_index_name(TableT, col, suffix \o "2"),
                                 TableT, kind, <<col>>) >>
              ELSE << >>
        have(b, s) == IF b /\ anomaly # "missing" THEN s ELSE << >>
    IN  have(f.primary_key, one("pk", "_pk"))
        \o have(f.unique /\ ~f.primary_key, one("unique", "_uniq") \o two("unique", "_uniq"))
        \o have(f.db_index, one("index", "_index") \o two("index", "_index"))
        \o have(f.check # None, one("check", "_check") \o two("check", "_check"))
        \o (IF f.remote_field THEN one("fk", "_fk") ELSE << >>)
        \o LET constrained == SelectSeq(relations, LAMBDA rel : rel.db_constraint)
           IN  [i \in 1..Len(constrained) |->
                  Constraint(create_index_name(constrained[i].table,
                                               constrained[i].column, "_fk"),
                             constrained[i].table, "fk", <<constrained[i].column>>)]

InitAlter ==
    \E c \in Calls, s \in BOOLEAN, anomaly \in {"none", "missing", "extra"},
       vals \in RowChoices,
       relations \in {<< >>, Incoming, IncomingUnconstrained} :
      /\ RowsFit(c[1], vals)
      /\ vals # << >> => ReadsRows(c[1], c[2])
      /\ relations # << >> => c[1].primary_key
      /\ Differences(c, anomaly, relations) <= MaxDiff
      /\ s => ReadsStrict(c[1], c[2])
      /\ op = "alter_field"
      /\ strict = s
      /\ old_field = c[1] /\ new_field = c[2]
      /\ rels = relations
      /\ db = [cols |-> (c[1].column :>
                           Column(db_type(c[1].cls), c[1].null,
                                  IF has_default(c[1])
                                    THEN prepare_default(c[1].default)
                                    ELSE NOT_PROVIDED,
                                  vals)),
               cons |-> InitConstraints(c[1], anomaly, relations),
               pend |-> << >>, nrows |-> Len(vals), identity_start |-> 0]

\* a many-to-many field and a field whose db_type() is None have no storage
\* type; the others of the calls that end at lines 87-93 are integer columns
DispatchFields ==
    {[Field(cls, ColId, FALSE, FALSE, FALSE, FALSE, None, NOT_PROVIDED, remote)
        EXCEPT !.through = t] :
       cls \in {"IntegerField", "ManyToManyField", "CustomField"},
       remote \in BOOLEAN, t \in {NoThrough, AutoCreated, Declared}}

DispatchCalls ==
    {c \in DispatchFields \X DispatchFields :
       /\ \A i \in 1..2 :
            /\ (c[i].cls = "ManyToManyField") = (c[i].through # NoThrough)
            /\ c[i].through # NoThrough => c[i].remote_field
            /\ c[i].cls = "CustomField" => ~c[i].remote_field
       /\ ~Ordinary(c[1], c[2])}

\* the constraints of a through table: its primary key, the foreign keys of
\* its two columns, the unique constraint and the index Django declares
ThroughConstraints(unique, index) ==
    << Constraint(create_index_name(TableM, ColId, "_pk"), TableM, "pk", <<ColId>>),
       Constraint(create_index_name(TableM, ColFrom, "_fk"), TableM, "fk", <<ColFrom>>),
       Constraint(create_index_name(TableM, ColReverse, "_fk"), TableM, "fk", <<ColReverse>>) >>
    \o (IF unique
          THEN << Constraint(create_index_name(TableM, ColFrom, "_uniq"), TableM,
                             "unique", <<ColFrom, ColReverse>>) >>
          ELSE << >>)
    \o (IF index
          THEN << Constraint(create_index_name(TableM, ColReverse, "_index"), TableM,
                             "index", <<ColReverse>>) >>
          ELSE << >>)

InitDispatch ==
    \E c \in DispatchCalls, unique \in BOOLEAN, index \in BOOLEAN,
       pending \in {<< >>, <<TableM>>} :
      /\ op = "alter_field"
      /\ strict = FALSE
      /\ old_field = c[1] /\ new_field = c[2]
      /\ rels = << >>
      /\ db = [cols |-> (ColId :> Column("INTEGER", FALSE, NOT_PROVIDED, << >>)),
               cons |-> ThroughConstraints(unique, index),
               pend |-> pending, nrows |-> 0, identity_start |-> 0]

InitAdd ==
    \E f \in {g \in Fields : g.column = ColId /\ g.to_table # TableQ},
       otherpk \in BOOLEAN,
       vals \in {v \in RowChoices : ~HasNull(v) /\ ~Duplicates(v)},
       pending \in {<< >>, <<TableT>>, <<TableR, TableT>>} :
      /\ op = "add_field"
      /\ strict = FALSE
      /\ old_field = f /\ new_field = f
      /\ rels = << >>
      /\ db = [cols |-> (ColOther :> Column("INTEGER", FALSE, NOT_PROVIDED, vals)),
               cons |-> IF otherpk
                          THEN << Constraint(create_index_name(TableT, ColOther, "_pk"),
                                             TableT, "pk", <<ColOther>>) >>
                          ELSE << >>,
               pend |-> pending, nrows |-> Len(vals), identity_start |-> 0]

Init ==
    /\ InitAlter \/ InitAdd \/ InitDispatch
    /\ trace = << >>
    /\ pc = "start"
    /\ err = [kind |-> "none", at |-> ""]
    /\ orig_old = old_field
    /\ orig_new = new_field
    /\ flags = NoFlags
    /\ deferred_constraints = NoDeferred
    /\ incoming_relations = << >>
    /\ db0 = db

Next ==
    \/ Dispatch
    \/ AlterManyToMany
    \/ BaseAlterManyToMany
    \/ RestoreManyToMany
    \/ Remake
    \/ ComputeFlags
    \/ DropPrimaryKey
    \/ DropUnique
    \/ DropIndex
    \/ DropCheck
    \/ DropNull
    \/ DropForeignKeys
    \/ DropIncomingForeignKeys
    \/ DeferConstraints
    \/ RenameColumn
    \/ AlterType
    \/ RestoreConstraints
    \/ AlterDefault
    \/ AlterNull
    \/ AddCheck
    \/ AddKey
    \/ UpdateIncoming
    \/ CreateForeignKey
    \/ RebuildIncoming
    \/ AddField

Spec == Init /\ [][Next]_vars

----------------------------------------------------------------------------
(* The statement trace of a call, and what the specification says of it *)

Idx == 1..Len(trace)
IsAlter == op = "alter_field"
Returned == pc = "done"
TypeDiffers == db_type(orig_old.cls) # db_type(orig_new.cls)

NullabilityOps == {"alter_column_not_null", "alter_column_null"}

\* C1, as the specification states it: an alter_field call whose old and new
\* definitions differ only in nullability executes exactly one SET NOT NULL /
\* DROP NOT NULL statement and no other statement.
C1_OneNullabilityStatement ==
    (IsAlter /\ Returned /\ Diff(orig_old, orig_new) = {"null"}) =>
        /\ Cardinality({i \in Idx : trace[i].op \in NullabilityOps}) = 1
        /\ \A i \in Idx : trace[i].op \in NullabilityOps

CreateOf(o) ==
    CASE o = "delete_pk" -> "create_pk"
      [] o = "delete_unique" -> "create_unique"
      [] o = "delete_index" -> "create_index"
      [] OTHER -> "create_check"

\* C2, as the specification states it: every constraint that the deferral
\* step removed from the engine has, when alter_field returns, exactly one
\* restoration attempt under its name on the new column; and a check
\* constraint that old and new definition share exists after a rename.
C2_DeferredRestoredOnce ==
    (IsAlter /\ Returned) =>
        /\ \A i \in Idx :
             (trace[i].at = "defer" /\ trace[i].ok) =>
                Cardinality({j \in Idx :
                               /\ j > i
                               /\ trace[j].op = CreateOf(trace[i].op)
                               /\ trace[j].name = trace[i].name
                               /\ orig_new.column \in Range(trace[j].columns)}) = 1
        /\ ( /\ orig_old.column # orig_new.column
             /\ orig_old.check = orig_new.check /\ orig_old.check # None
             /\ \E c \in Range(db0.cons) :
                  c.table = TableT /\ c.check /\ c.columns = <<orig_old.column>> )
           => \E c \in Range(db.cons) :
                  c.table = TableT /\ c.check /\ c.columns = <<orig_new.column>>

TempColumn == psudo_column_prefix \o orig_new.column
CreatesTemp(i) == trace[i].op = "create_column" /\ trace[i].column = TempColumn
DropsOld(i) == trace[i].op = "delete_column" /\ trace[i].column = orig_old.column

\* the block of lines 95-108 is behind the call and raised nothing
PastRemakeBlock == pc # "start" /\ ~(pc = "error" /\ err.at = "start")

Remade ==
    \E i, j \in Idx :
       i < j /\ CreatesTemp(i) /\ trace[i].ok /\ DropsOld(j) /\ trace[j].ok

AutoToInteger ==
    IsAlter /\ TypeDiffers /\ IsAutoField(orig_old) /\ IsIntegerField(orig_new)

\* C3, as the specification states it: a call that turns an auto-increment
\* column into a plain integer column creates no temporary column and does
\* not drop the old column.
C3_NoRemake ==
    AutoToInteger => \A i \in Idx : ~CreatesTemp(i) /\ ~DropsOld(i)

\* C3, amended: a call that turns an auto-increment column into a plain
\* integer column takes the remake path: its first statement creates the
\* temporary column, and once the remake block has ended without an
\* exception the old column has been dropped after it.
C3_AutoToIntegerRemade ==
    AutoToInteger =>
        /\ pc # "start" => (Len(trace) >= 1 /\ CreatesTemp(1))
        /\ PastRemakeBlock => Remade

C3_Witness == AutoToInteger /\ Returned /\ Remade

Special(f) == IsAutoField(f) \/ IsTextField(f)

\* C4, as the specification states it: a call that changes the storage type
\* with an auto-increment or large-text column on either side (other than
\* auto-increment to plain integer) creates a temporary column and then
\* drops the old column; integer to auto-increment included.
C4_RemadeEitherSide ==
    ( /\ IsAlter /\ TypeDiffers
      /\ Special(orig_old) \/ Special(orig_new)
      /\ ~AutoToInteger
      /\ PastRemakeBlock ) => Remade

IsIdentity(i) == trace[i].op = "alter_column_type_from_int_to_auto"

\* C4, amended: a call that changes the storage type is remade when the old
\* column is auto-increment or large-text or the new column is large-text
\* (the statement trace holds the creation of the temporary column and,
\* after it, the drop of the old column); a call that turns a column that is
\* neither into an auto-increment column is not remade: it creates and drops
\* no column and alters the column to an identity in place.
C4_RemadeOldSideOrNewText ==
    (IsAlter /\ TypeDiffers) =>
        /\ ( /\ Special(orig_old) \/ IsTextField(orig_new)
             /\ PastRemakeBlock ) => Remade
        /\ (IsAutoField(orig_new) /\ ~Special(orig_old)) =>
             /\ \A i \in Idx : ~CreatesTemp(i) /\ ~DropsOld(i)
             /\ Returned => \E i \in Idx : IsIdentity(i) /\ trace[i].ok

C4_Witness ==
    /\ IsAlter /\ TypeDiffers /\ Returned
    /\ IsIntegerField(orig_old) /\ IsTextField(orig_new)
    /\ Remade

IsRename(i) == trace[i].op = "rename_column"
IsTypeChange(i) ==
    trace[i].op \in {"alter_column_type", "alter_column_type_from_int_to_auto"}

\* a call that renames and retypes a column that is and stays unique
UniqueRenameRetype ==
    /\ IsAlter /\ TypeDiffers
    /\ orig_old.column # orig_new.column
    /\ orig_old.unique /\ orig_new.unique
    /\ ~orig_old.primary_key /\ ~orig_new.primary_key

\* the unique constraints that cover the old column before the call
Uniques0 ==
    {c \in Range(db0.cons) :
       c.table = TableT /\ c.unique /\ orig_old.column \in Range(c.columns)}

DropsUnique(j, c) == trace[j].op = "delete_unique" /\ trace[j].name = c.name

\* C5: a call that renames and retypes a unique column executes the drop of
\* each unique constraint on the old column, then the rename, then the type
\* alteration, then the re-creation of each dropped constraint under its
\* original name on the new column; once the drops have succeeded no unique
\* constraint exists while the rename and the type alteration run, and none
\* is recreated before both have run.
C5_DropRenameRetypeRecreate ==
    UniqueRenameRetype =>
        /\ \A i \in Idx : (IsRename(i) \/ IsTypeChange(i)) =>
              \A c \in Uniques0 : \E j \in 1..(i - 1) : DropsUnique(j, c)
        /\ \A i \in Idx : IsTypeChange(i) =>
              \E j \in 1..(i - 1) : IsRename(j) /\ trace[j].ok
        /\ \A i \in Idx : trace[i].op = "create_unique" =>
              /\ \E c \in Uniques0 :
                    /\ trace[i].name = c.name
                    /\ \E j \in 1..(i - 1) : DropsUnique(j, c) /\ trace[j].ok
              /\ trace[i].columns = <<orig_new.column>>
              /\ \E j \in 1..(i - 1) : IsRename(j) /\ trace[j].ok
              /\ \E j \in 1..(i - 1) : IsTypeChange(j) /\ trace[j].ok
              /\ \A j \in Idx : (IsRename(j) \/ IsTypeChange(j)) => j < i
        /\ ( /\ pc \in {"rename", "alter_type"}
             /\ \A j \in Idx : trace[j].op = "delete_unique" => trace[j].ok )
           => ~\E c \in Range(db.cons) : c.table = TableT /\ c.unique
        /\ Returned =>
              \A c \in Uniques0 :
                 (\E j \in Idx : DropsUnique(j, c) /\ trace[j].ok) =>
                    /\ Cardinality({i \in Idx : /\ trace[i].op = "create_unique"
                                                /\ trace[i].name = c.name
                                                /\ trace[i].ok}) = 1
                    /\ \E k \in Range(db.cons) :
                          /\ k.name = c.name /\ k.unique
                          /\ k.columns = <<orig_new.column>>

C5_Witness ==
    /\ UniqueRenameRetype /\ Returned
    /\ IsIntegerField(orig_old) /\ orig_new.cls = "DecimalField"
    /\ \E i, j, k, l \in Idx :
          /\ i < j /\ j < k /\ k < l
          /\ trace[i].op = "delete_unique" /\ trace[i].ok
          /\ IsRename(j) /\ IsTypeChange(k)
          /\ trace[l].op = "create_unique" /\ trace[l].name = trace[i].name

AddsNotNullPk == op = "add_field" /\ ~orig_new.null /\ orig_new.primary_key

\* the statements of add_field other than the reorganizations and the
\* compensating drop of the column
AddSteps ==
    SelectSeqBy(trace, {s \in Range(trace) : s.op # "reorg" /\ s.at # "del_column"})

\* the primary keys of the table before the call
Pks0 ==
    SelectSeqBy(db0.cons, {c \in Range(db0.cons) : c.table = TableT /\ c.primary_key})

ExpectedAddSteps ==
    << [op |-> "create_column", name |-> NoName],
       [op |-> "alter_column_not_null", name |-> NoName] >>
    \o [i \in 1..Len(Pks0) |-> [op |-> "delete_pk", name |-> Pks0[i].name]]
    \o << [op |-> "create_pk",
           name |-> <<TableT, orig_new.column, "_pk">>] >>

\* C6: add_field of a NOT NULL primary-key column executes, in this order,
\* the addition of the column as nullable with primary-key and uniqueness
\* flags cleared, SET NOT NULL, the drop of every primary key the table had,
\* and the creation of the primary key <table>_<column>_pk on the new column;
\* a failed creation of the primary key is followed at once by the drop of
\* the added column, and the call has failed.
C6_AddNotNullPkOrder ==
    AddsNotNullPk =>
        /\ Len(AddSteps) <= Len(ExpectedAddSteps)
        /\ \A i \in 1..Len(AddSteps) :
              /\ AddSteps[i].op = ExpectedAddSteps[i].op
              /\ AddSteps[i].name = ExpectedAddSteps[i].name
              /\ i < Len(AddSteps) => AddSteps[i].ok
        /\ pc # "start" =>
              /\ Len(AddSteps) >= 1
              /\ AddSteps[1].column = orig_new.column
              /\ AddSteps[1].null /\ ~AddSteps[1].primary_key /\ ~AddSteps[1].unique
        /\ Returned =>
              /\ Len(AddSteps) = Len(ExpectedAddSteps)
              /\ AddSteps[Len(AddSteps)].ok
              /\ AddSteps[Len(AddSteps)].columns = <<orig_new.column>>
        /\ \A i \in Idx : (trace[i].op = "create_pk" /\ ~trace[i].ok) =>
              /\ pc = "error"
              /\ i < Len(trace)
              /\ trace[i + 1].op = "delete_column"
              /\ trace[i + 1].column = orig_new.column
              /\ trace[i + 1].ok => orig_new.column \notin DOMAIN db.cols

C6_Witness ==
    /\ AddsNotNullPk /\ pc = "error"
    /\ \E i, j \in Idx :
          /\ i < j
          /\ trace[i].op = "delete_pk" /\ trace[i].ok
          /\ trace[j].op = "create_pk" /\ ~trace[j].ok
          /\ trace[j + 1].op = "delete_column"

FollowUps == {"not_null", "other_pk", "reorg_pk", "create_pk", "create_unique"}

\* C7, as the specification states it: when a follow-up statement of
\* add_field fails after the column was created, the drop of the added column
\* is executed and the column does not exist when add_field has failed.
C7_ColumnDroppedOnFailure ==
    ( /\ op = "add_field" /\ pc = "error"
      /\ \E i \in Idx : ~trace[i].ok /\ trace[i].at \in FollowUps ) =>
        /\ \E j \in Idx :
              trace[j].op = "delete_column" /\ trace[j].column = orig_new.column
        /\ orig_new.column \notin DOMAIN db.cols

\* the drop sub-steps of lines 132-173 and the kind of constraint each drops
DropSteps == {"drop_pk", "drop_unique", "drop_index"}
KindAt(p) ==
    CASE p = "drop_pk" -> "pk" [] p = "drop_unique" -> "unique" [] OTHER -> "index"
DeleteAt(p) ==
    CASE p = "drop_pk" -> "drop_pk"
      [] p = "drop_unique" -> "delete_unique"
      [] OTHER -> "delete_index"

\* the constraints the sub-step at pc finds in the catalog
Matching == constraint_names(db, TableT, old_field.column, KindAt(pc))
Mismatch == IF pc = "drop_pk" THEN Len(Matching) = 0 ELSE Len(Matching) # 1

\* the statements the step executes
Executed == SubSeq(trace', Len(trace) + 1, Len(trace'))

ValidatesThenDrops ==
    (IsAlter /\ pc \in DropSteps) =>
        /\ (strict /\ Mismatch) =>
              /\ pc' = "error"
              /\ err' = [kind |-> "validation", at |-> pc]
              /\ Executed = << >>
              /\ db' = db
        /\ ~(strict /\ Mismatch) =>
              /\ err'.kind # "validation"
              /\ IF pc = "drop_pk"
                   THEN Len(Executed) = 1 /\ Executed[1].op = "drop_pk"
                   ELSE /\ Len(Executed) <= Len(Matching)
                        /\ \A i \in 1..Len(Executed) :
                              /\ Executed[i].op = DeleteAt(pc)
                              /\ Executed[i].name = Matching[i]
                        /\ pc' # "error" =>
                              /\ Len(Executed) = Len(Matching)
                              /\ \A i \in 1..Len(Matching) :
                                    Matching[i] \notin ConsNames(db')

C9_NoPartialState ==
    (IsAlter /\ err.kind = "validation") =>
        db.cols = db0.cols /\ db.cons = db0.cons

\* the values stored in the column before the call
Stored ==
    {v[1] : v \in {w \in Range(db0.cols[orig_old.column].vals) : w # NULL}}

ExpectedStart ==
    IF Stored = {} THEN 1
    ELSE (CHOOSE m \in Stored : \A x \in Stored : x <= m) + 1

----------------------------------------------------------------------------
(* _defer_constraints_check followed by _restore_constraints_check on a
   table whose primary key may span several columns, old and new column
   being the same *)

PkColumnLists == {<<ColId>>, <<ColId, ColOther>>, <<ColOther, ColId>>, <<ColOther>>}
PkNames == {<<TableT, ColId, "_pk">>, <<TableT, ColOther, "_key">>}

\* the keyword arguments of the two call sites, lines 229-230 and 574-575
DeferKinds == {{"pk", "unique", "index", "check"}, {"pk", "unique", "index"}}

InitRoundTrip ==
    \E columns \in PkColumnLists, name \in PkNames,
       others \in SUBSET {"unique", "index", "check"},
       vals \in {v \in RowChoices : ~HasNull(v)},
       pending \in {<< >>, <<TableT>>} :
      /\ op = "round_trip"
      /\ strict = FALSE
      /\ old_field = Field("IntegerField", ColId, FALSE, FALSE, FALSE, FALSE,
                           None, NOT_PROVIDED, FALSE)
      /\ new_field = old_field
      /\ orig_old = old_field /\ orig_new = old_field
      /\ rels = << >> /\ incoming_relations = << >>
      /\ flags = NoFlags
      /\ deferred_constraints = NoDeferred
      /\ trace = << >>
      /\ pc = "start"
      /\ err = [kind |-> "none", at |-> ""]
      /\ db = [cols |-> (ColId :> Column("INTEGER", FALSE, NOT_PROVIDED, vals)
                         @@ ColOther :> Column("INTEGER", FALSE, NOT_PROVIDED, vals)),
               cons |-> << Constraint(name, TableT, "pk", columns) >>
                        \o (IF "unique" \in others
                              THEN << Constraint(create_index_name(TableT, ColId, "_uniq"),
                                                 TableT, "unique", <<ColId>>) >>
                              ELSE << >>)
                        \o (IF "index" \in others
                              THEN << Constraint(create_index_name(TableT, ColId, "_index"),
                                                 TableT, "index", <<ColOther, ColId>>) >>
                              ELSE << >>)
                        \o (IF "check" \in others
                              THEN << Constraint(create_index_name(TableT, ColId, "_check"),
                                                 TableT, "check", <<ColId>>) >>
                              ELSE << >>),
               pend |-> pending, nrows |-> Len(vals), identity_start |-> 0]
      /\ db0 = db

\* the call of _defer_constraints_check
DeferOnly ==
    /\ op = "round_trip" /\ pc = "start"
    /\ UNCHANGED <<op, strict, old_field, new_field, orig_old, orig_new, flags,
                   incoming_relations, rels, db0>>
    /\ LET constraints == get_constraints(db, TableT)
       IN  \E kinds \in DeferKinds, F \in SUBSET (1..Len(constraints)) :
             LET res == defer_constraints_check(R0(db, F), constraints,
                           deferred_constraints, old_field.column, TableT, kinds)
             IN  /\ Step(res.r, "deferred")
                 /\ deferred_constraints' = res.dc

\* the call of _restore_constraints_check with the same column as new column
RestoreOnly ==
    /\ op = "round_trip" /\ pc = "deferred"
    /\ UNCHANGED Locals
    /\ \E F \in FailOne(Len(deferred_constraints.pk) * (Len(db.pend) + 1)
                        + Len(deferred_constraints.unique)
                        + Len(deferred_constraints.index)) :
         Step(restore_constraints_check(R0(db, F), deferred_constraints,
                                        old_field.column, new_field.column, TableT),
              "restored")

NextRoundTrip == DeferOnly \/ RestoreOnly

SpecRoundTrip == InitRoundTrip /\ [][NextRoundTrip]_vars

\* the primary keys of the table: name and ordered column list
PkEntries(d) ==
    {Entry(c) : c \in {k \in Range(d.cons) : k.table = TableT /\ k.primary_key}}

PkCreations == {i \in Idx : trace[i].op = "create_pk"}

\* C11: when a primary key that covers column id has been deferred and then
\* restored with the new column equal to the old one, exactly one primary key
\* has been recreated, under the name and with the ordered column list it had
\* before the deferral, for single-column and multi-column primary keys; a
\* primary key that does not cover the column is left alone.
C11_PkRoundTrip ==
    (op = "round_trip" /\ pc = "restored") =>
        /\ PkEntries(db) = PkEntries(db0)
        /\ \A c \in Range(db0.cons) :
              (c.table = TableT /\ c.primary_key) =>
                 IF ColId \in Range(c.columns)
                   THEN /\ Cardinality(PkCreations) = 1
                        /\ \A i \in PkCreations :
                              /\ trace[i].name = c.name
                              /\ trace[i].columns = c.columns
                              /\ trace[i].ok
                        /\ \E j \in Idx : trace[j].op = "delete_pk" /\ trace[j].name = c.name
                   ELSE PkCreations = {} /\ \A j \in Idx : trace[j].op # "delete_pk"

C11_Witness ==
    /\ op = "round_trip" /\ pc = "restored"
    /\ \E i \in Idx :
          /\ trace[i].op = "create_pk" /\ trace[i].ok
          /\ trace[i].columns = <<ColOther, ColId>>
          /\ trace[i].name = <<TableT, ColOther, "_key">>

NamesOf(entries) == [i \in 1..Len(entries) |-> entries[i].name]

\* the names a sequence of statements has dropped with success, by statement
Dropped(stmts, o) ==
    NamesOf(SelectSeqBy(stmts, {s \in Range(stmts) : s.op = o /\ s.ok}))

BestEffortDrops == {"delete_unique", "delete_index"}

DeferralPass ==
    (op = "round_trip" /\ pc = "start" /\ pc' # pc) =>
        /\ \A i \in 1..Len(Executed) :
              (~Executed[i].ok /\ Executed[i].op \notin BestEffortDrops) =>
                 /\ Executed[i].op \in {"delete_pk", "delete_check"}
                 /\ i = Len(Executed)
                 /\ pc' = "error"
        /\ (\A i \in 1..Len(Executed) :
               ~Executed[i].ok => Executed[i].op \in BestEffortDrops)
           => /\ pc' = "deferred"
              /\ \A c \in Range(db.cons) :
                    ( /\ c.table = TableT /\ ColId \in Range(c.columns)
                      /\ c.primary_key \/ c.unique \/ c.index )
                    => \E i \in 1..Len(Executed) : Executed[i].name = c.name
        /\ NamesOf(deferred_constraints'.pk) = Dropped(Executed, "delete_pk")
        /\ NamesOf(deferred_constraints'.unique) = Dropped(Executed, "delete_unique")
        /\ NamesOf(deferred_constraints'.index) = Dropped(Executed, "delete_index")
        /\ NamesOf(deferred_constraints'.check) = Dropped(Executed, "delete_check")

RestorationPass ==
    (op = "round_trip" /\ pc = "deferred") =>
        \A i \in 1..Len(Executed) :
           Executed[i].op \in {"create_pk", "create_unique", "create_index"} =>
              \E j \in Idx :
                 /\ trace[j].name = Executed[i].name
                 /\ CreateOf(trace[j].op) = Executed[i].op
                 /\ trace[j].ok

\* C12: in the deferral pass a failing drop of a unique or index constraint
\* is swallowed (the pass goes on to the remaining constraints and returns),
\* a failing drop of a primary-key or check constraint is the last statement
\* of the pass and ends it with the error; the constraints recorded are
\* exactly those whose drop statement succeeded, and restoration recreates
\* only constraints whose drop succeeded.
C12_BestEffortDrops == [][DeferralPass /\ RestorationPass]_vars

C12_Witness ==
    /\ op = "round_trip" /\ pc = "restored"
    /\ \E i, j, k \in Idx :
          /\ i < j /\ j < k
          /\ trace[i].op = "delete_unique" /\ ~trace[i].ok
          /\ trace[j].op = "delete_index" /\ trace[j].ok
          /\ trace[k].op = "create_index" /\ trace[k].name = trace[j].name
    /\ \A i \in Idx : trace[i].op # "create_unique"

----------------------------------------------------------------------------
(* The dispatch on the storage types, lines 76-93 *)

HasNoType(f) == db_type(f.cls) = NoType

OneStorageType == IsAlter /\ (HasNoType(orig_old) # HasNoType(orig_new))

BothAutoCreated ==
    /\ IsAlter /\ HasNoType(orig_old) /\ HasNoType(orig_new)
    /\ HasThrough(orig_old) /\ orig_old.through = AutoCreated
    /\ HasThrough(orig_new) /\ orig_new.through = AutoCreated

\* the blocks of _alter_many_to_many
ManyToManySteps == {"many_to_many", "base_many_to_many", "restore_many_to_many"}

\* C13: a call in which exactly one of the two fields has no storage type
\* ends with the "Cannot alter field" error and no statement executed; a
\* call in which neither has one and both link tables are auto-created runs
\* _alter_many_to_many and no block of the ordinary plan.
C13_DispatchOnStorageTypes ==
    /\ (OneStorageType /\ pc # "start") =>
          /\ pc = "error" /\ err.kind = "cannot_alter"
          /\ trace = << >>
    /\ (BothAutoCreated /\ pc # "start") =>
          /\ pc \in ManyToManySteps \cup {"error", "done"}
          /\ \A i \in Idx : trace[i].at \in ManyToManySteps

----------------------------------------------------------------------------
(* The reorganization pass by itself: calls of _reorg_tables on an engine
   whose tables get flagged between the calls *)

\* the statements of a behaviour of the passes
MaxReorgTrace == 4

Tables == {TableT, TableR, TableM}

\* the rows the query returns: each flagged table once, in the engine's order
PendingLists ==
    {<< >>} \cup {<<a>> : a \in Tables}
    \cup {p \in Tables \X Tables : p[1] # p[2]}
    \cup {p \in Tables \X Tables \X Tables : Cardinality(Range(p)) = 3}

InitReorg ==
    \E pending \in PendingLists :
      /\ op = "reorg"
      /\ strict = FALSE
      /\ old_field = Field("IntegerField", ColId, FALSE, FALSE, FALSE, FALSE,
                           None, NOT_PROVIDED, FALSE)
      /\ new_field = old_field
      /\ orig_old = old_field /\ orig_new = new_field
      /\ rels = << >>
      /\ flags = NoFlags
      /\ deferred_constraints = NoDeferred
      /\ incoming_relations = << >>
      /\ db = [cols |-> (ColId :> Column("INTEGER", FALSE, NOT_PROVIDED, << >>)),
               cons |-> << >>, pend |-> pending, nrows |-> 0,
               identity_start |-> 0]
      /\ db0 = db
      /\ trace = << >>
      /\ pc = "start"
      /\ err = [kind |-> "none", at |-> ""]

\* a call of _reorg_tables; the call after one that returned is the second
\* of two consecutive passes
ReorgPass ==
    /\ op = "reorg" /\ pc \in {"start", "flagged", "passed"}
    /\ Len(trace) + Len(db.pend) <= MaxReorgTrace
    /\ UNCHANGED Locals
    /\ \E F \in FailOne(Len(db.pend)) :
         Step(reorg_tables(R0(db, F)),
              IF pc = "passed" THEN "second" ELSE "passed")

\* a statement of another call leaves a table reorg-pending
FlagPending ==
    /\ op = "reorg" /\ pc \in {"start", "passed", "second", "flagged"}
    /\ \E t \in Tables :
         /\ t \notin Range(db.pend)
         /\ db' = AddPending(db, t)
    /\ pc' = "flagged"
    /\ UNCHANGED Locals
    /\ UNCHANGED <<trace, err>>

NextReorg == ReorgPass \/ FlagPending

SpecReorg == InitReorg /\ [][NextReorg]_vars

TablesOf(stmts) == [i \in 1..Len(stmts) |-> stmts[i].table]

\* the step is a call of _reorg_tables
IsPass == op = "reorg" /\ pc # "error" /\ pc' \in {"passed", "second", "error"}

\* the commands of a pass against the rows its query returned
PassIssues ==
    IsPass =>
      /\ \A i \in 1..Len(Executed) : Executed[i].op = "reorg"
      /\ Len(Executed) <= Len(db.pend)
      /\ TablesOf(Executed) = SubSeq(db.pend, 1, Len(Executed))
      /\ pc' # "error" =>
           /\ TablesOf(Executed) = db.pend
           /\ \A i \in 1..Len(Executed) : Executed[i].ok
           /\ db'.pend = << >>
      /\ pc' = "error" =>
           /\ Executed # << >>
           /\ \A i \in 1..Len(Executed) : Executed[i].ok = (i # Len(Executed))
      /\ db.pend = << >> => Executed = << >>
      /\ pc = "passed" => (Executed = << >> /\ pc' = "second")

\* C14: a pass of _reorg_tables issues one reorganize command for each row
\* of the pending query, in the order of the rows (up to the first command
\* the engine rejects, which ends the pass), none when the query returns no
\* row, and none in a pass that directly follows a pass whose commands all
\* succeeded.
C14_ReorgPass == [][PassIssues]_vars

\* two passes in a row, the first over three flagged tables
C14_Witness ==
    /\ op = "reorg" /\ pc = "second"
    /\ Len(trace) = 3 /\ TablesOf(trace) = db0.pend
    /\ db.pend = << >>

----------------------------------------------------------------------------
(* Failures of the rename and of the datatype change, lines 233-301 *)

\* the statements of lines 233-301 that the engine rejected
FailedInPlace ==
    {i \in Idx : trace[i].at \in {"rename", "alter_type"} /\ ~trace[i].ok}

\* the constraints the deferral dropped
DeferredEntries ==
    Range(deferred_constraints.pk) \cup Range(deferred_constraints.unique)
    \cup Range(deferred_constraints.index) \cup Range(deferred_constraints.check)

\* C15: when the rename or a statement of the datatype change fails, it is
\* the last statement of the call, the call ends with the error of the
\* statement, and the constraints the deferral dropped are still absent.
C15_RenameRetypeFailurePropagates ==
    \A i \in FailedInPlace :
      /\ i = Len(trace)
      /\ pc = "error" /\ err.kind = "statement" /\ err.at = trace[i].at
      /\ \A e \in DeferredEntries :
           ~\E c \in Range(db.cons) : c.table = TableT /\ c.name = e.name

\* a rename that failed after the deferral dropped a constraint
C15_Witness ==
    /\ \E i \in FailedInPlace : trace[i].op = "rename_column"
    /\ DeferredEntries # {}
    /\ \E j \in Idx : trace[j].at = "defer" /\ trace[j].ok

----------------------------------------------------------------------------
(* The order of the drops, lines 132-301 *)

\* the place of a block in the order of C16; 0 for the other blocks
Rank(label) ==
    CASE label = "drop_pk" -> 1
      [] label = "drop_unique" -> 2
      [] label = "drop_index" -> 3
      [] label = "drop_check" -> 4
      [] label = "drop_null" -> 5
      [] label = "drop_fk" -> 6
      [] label = "defer" -> 7
      [] label = "rename" -> 8
      [] label = "alter_type" -> 9
      [] OTHER -> 0

\* the statement a block of lines 132-210 executes
DropOp(label) ==
    CASE label = "drop_pk" -> "drop_pk"
      [] label = "drop_unique" -> "delete_unique"
      [] label = "drop_index" -> "delete_index"
      [] label = "drop_check" -> "delete_check"
      [] label = "drop_null" -> "alter_column_not_null"
      [] label = "drop_fk" -> "delete_fk"
      [] OTHER -> ""

\* C16: the statements of the primary-key drop, the unique drops, the index
\* drops, the check drops and the NOT NULL change occur in this order, all
\* before the drops of the column's own foreign keys, which come before the
\* statements that follow the catalog snapshot, the rename and the datatype
\* change.
C16_DropOrder ==
    LET rank == [i \in Idx |-> Rank(trace[i].at)]
        ranked == {i \in Idx : rank[i] > 0}
    IN  /\ \A i \in ranked, j \in ranked : i < j => rank[i] <= rank[j]
        /\ \A i \in ranked :
             rank[i] <= 6 => trace[i].op = DropOp(trace[i].at)

\* a check drop, then the NOT NULL change, in one call
C16_Witness ==
    \E i \in Idx, j \in Idx :
      /\ i < j
      /\ trace[i].at = "drop_check" /\ trace[i].ok
      /\ trace[j].at = "drop_null" /\ trace[j].ok

----------------------------------------------------------------------------
(* The conditions of the drops, lines 132-198 *)

\* a statement of the block was executed
Executes(label) == \E i \in Idx : trace[i].at = label

Differs(a) == orig_old[a] # orig_new[a]

\* the conditions of the blocks other than the unique drop
OtherDropsOnOwnFlag ==
    /\ Executes("drop_pk") => (Differs("primary_key") /\ orig_old.primary_key)
    /\ Executes("drop_index") => (Differs("db_index") /\ orig_old.db_index)
    /\ Executes("drop_check") => (Differs("check") /\ orig_old.check # None)
    /\ Executes("drop_null") => (Differs("null") /\ orig_old.null)

\* C17 as stated: each drop of lines 132-198 executes only when its own
\* attribute differs between the old and the new field and the old field
\* had it; the unique drop never executes when both fields are unique.
C17_DropOnlyOnOwnFlag ==
    /\ OtherDropsOnOwnFlag
    /\ Executes("drop_unique") => (Differs("unique") /\ orig_old.unique)

\* C17: each drop of lines 132-198 executes only when its own attribute
\* differs and the old field had it, except that the unique drop also
\* executes for an old field that is unique and not the primary key when
\* the primary-key attribute differs.
C17_DropOnOwnFlagOrPromotion ==
    /\ OtherDropsOnOwnFlag
    /\ Executes("drop_unique") =>
         /\ orig_old.unique
         /\ Differs("unique") \/ (Differs("primary_key") /\ ~orig_old.primary_key)

\* a unique column made the primary key: the unique drop executed although
\* both fields are unique
C17_Witness ==
    /\ orig_old.unique /\ orig_new.unique
    /\ ~orig_old.primary_key /\ orig_new.primary_key
    /\ \E i \in Idx : trace[i].at = "drop_unique" /\ trace[i].ok

----------------------------------------------------------------------------
(* The foreign keys of other tables, lines 95-142 and 212-231 *)

\* the foreign-key constraints of the referencing tables before the call
IncomingFks0 ==
    {c \in Range(db0.cons) :
       /\ c.foreign_key
       /\ \E k \in 1..Len(rels) :
            c.table = rels[k].table /\ c.columns = <<rels[k].column>>}

\* the statement drops the primary key of the table, renames the column,
\* alters its type or drops it
TouchesReferenced(i) ==
    /\ trace[i].table = TableT
    /\ \/ trace[i].op \in {"drop_pk", "delete_pk"}
       \/ /\ trace[i].op \in {"rename_column", "alter_column_type",
                              "alter_column_type_from_int_to_auto", "delete_column"}
          /\ trace[i].column = orig_old.column

DroppedBefore(c, j) ==
    \E i \in 1..(j - 1) :
      /\ trace[i].op = "delete_fk" /\ trace[i].ok
      /\ trace[i].table = c.table /\ trace[i].name = c.name

\* C18: in a call on a primary-key column that foreign keys of other tables
\* reference, each of these foreign keys is dropped before any statement
\* that drops the primary key of the table, renames the column, alters its
\* type or drops it, on the direct path and on the remake path.
C18_IncomingDroppedFirst ==
    (IsAlter /\ orig_old.primary_key) =>
      \A j \in Idx :
        TouchesReferenced(j) => \A c \in IncomingFks0 : DroppedBefore(c, j)

\* the incoming foreign keys the call dropped
DroppedIncoming ==
    {c \in IncomingFks0 :
       \E i \in Idx : /\ trace[i].op = "delete_fk" /\ trace[i].ok
                      /\ trace[i].table = c.table /\ trace[i].name = c.name}

\* the statements of lines 444-455 that created a foreign key
Rebuilt == {i \in Idx : /\ trace[i].at = "rebuild_incoming" /\ trace[i].ok
                        /\ trace[i].op = "create_fk"}

RebuildsOf(c) ==
    {i \in Rebuilt : trace[i].table = c.table /\ trace[i].columns = c.columns}

\* C19: when the call returns, each incoming foreign key it dropped has been
\* created again once by lines 444-455, on the same referencing column and
\* referring to the new column name, after the rename, the datatype change
\* and the change of the referencing column's type; and lines 444-455 have
\* created no foreign key for a relation whose constraint the call did not
\* drop.
C19_RebuiltEqualsDropped ==
    (IsAlter /\ Returned) =>
      /\ \A c \in DroppedIncoming :
           /\ Cardinality(RebuildsOf(c)) = 1
           /\ \A i \in RebuildsOf(c) :
                /\ trace[i].arg = TableT /\ trace[i].to = orig_new.column
                /\ \A j \in Idx :
                     trace[j].at \in {"rename", "alter_type", "update_incoming"}
                       => j < i
      /\ \A i \in Rebuilt : \E c \in DroppedIncoming : i \in RebuildsOf(c)

----------------------------------------------------------------------------
(* The remake of a column, lines 95-108 and 457-471 *)

\* the UPDATE of line 464: the temporary column takes the old column's values
CopiesValues(i) ==
    /\ trace[i].op = "update"
    /\ trace[i].column = TempColumn /\ trace[i].to = orig_old.column

HasPrefix(column) ==
    /\ Len(column) >= Len(psudo_column_prefix)
    /\ SubSeq(column, 1, Len(psudo_column_prefix)) = psudo_column_prefix

RemakeOrder ==
    LET updates == {i \in Idx : trace[i].op = "update"}
        creates == {i \in Idx : CreatesTemp(i)}
        drops == {i \in Idx : DropsOld(i)}
    IN  /\ \A j \in updates : CopiesValues(j)
        /\ \A i \in creates, j \in updates : i < j
        /\ \A j \in updates, k \in drops : j < k
        /\ \A k \in drops :
             \E i \in creates, j \in updates :
               /\ i < j /\ j < k
               /\ trace[i].ok /\ trace[j].ok

RemakeResult ==
    (Returned /\ Remade) =>
      /\ orig_new.column \in DOMAIN db.cols
      /\ db.cols[orig_new.column].vals = db0.cols[orig_old.column].vals
      /\ orig_old.column # orig_new.column => orig_old.column \notin DOMAIN db.cols
      /\ \A c \in DOMAIN db.cols : ~HasPrefix(c)

----------------------------------------------------------------------------
(* The constraints of the temporary column, lines 457-542 *)

\* SET NOT NULL, primary key or unique constraint on the temporary column
ConstrainsTemp(i) ==
    \/ trace[i].op = "alter_column_not_null" /\ trace[i].column = TempColumn
    \/ /\ trace[i].op \in {"create_pk", "create_unique"}
       /\ trace[i].columns = <<TempColumn>>

\* the old column holds rows, none NULL and no two equal
CleanRows ==
    /\ db0.nrows > 0
    /\ ~HasNull(db0.cols[orig_old.column].vals)
    /\ ~Duplicates(db0.cols[orig_old.column].vals)

\* C21: on the remake path the SET NOT NULL, primary-key and unique
\* statements of the temporary column come after the UPDATE that copies the
\* old column into it, and on a table with rows whose old column has no
\* NULL and no duplicate none of them is rejected.
C21_ConstraintsAfterCopy ==
    (IsAlter /\ orig_old.column \in DOMAIN db0.cols) =>
      \A i \in Idx :
        ConstrainsTemp(i) =>
          /\ \E j \in 1..(i - 1) : CopiesValues(j) /\ trace[j].ok
          /\ CleanRows => trace[i].ok

----------------------------------------------------------------------------
(* The default around the rename and the datatype change, lines 233-256 *)

DropsDefault(i) == trace[i].op = "drop_default" /\ trace[i].ok

Renames == {i \in Idx : trace[i].op = "rename_column"}

\* the statements of lines 270-301 that alter the type of the column
TypeAlterations ==
    {i \in Idx : /\ trace[i].at = "alter_type"
                 /\ trace[i].op \in {"alter_column_type",
                                     "alter_column_type_from_int_to_auto"}}

\* C22: when the name or the datatype differs and the old field
\* has a default, a DROP DEFAULT is executed before the rename statement
\* and before the statements that alter the type.
C22_DefaultDroppedBeforeRenameAndRetype ==
    (IsAlter /\ has_default(orig_old)) =>
      \A i \in Renames \cup TypeAlterations :
        \E j \in 1..(i - 1) : DropsDefault(j)

----------------------------------------------------------------------------
(* The change of the default, lines 126-130 and 306-327 *)

DefaultDiffers == effective_default(orig_old) # effective_default(orig_new)

SetsDefault(i) ==
    /\ trace[i].op = "alter_column_default" /\ trace[i].ok
    /\ trace[i].table = TableT /\ trace[i].column = orig_new.column
    /\ trace[i].text = prepare_default(effective_default(orig_new))

\* C23: a call that returns, whose new field has a default that differs
\* from the effective default of the old field, has executed SET DEFAULT
\* with the formatted new default on the new column name, also when the
\* old field has no default.
C23_NewDefaultSet ==
    (IsAlter /\ Returned /\ DefaultDiffers /\ has_default(orig_new)) =>
      \E i \in Idx : SetsDefault(i)

\* C24: a call that returns, whose old field has a default and whose new
\* field has none, has executed a DROP DEFAULT for the column, and the
\* column has no default when the call returns, whatever else differs.
C24_OldDefaultDropped ==
    (IsAlter /\ Returned /\ has_default(orig_old) /\ ~has_default(orig_new)) =>
      /\ \E i \in Idx :
           /\ DropsDefault(i) /\ trace[i].table = TableT
           /\ trace[i].column \in {orig_old.column, orig_new.column}
      /\ db.cols[orig_new.column].default = NOT_PROVIDED

----------------------------------------------------------------------------
(* The reorganization ahead of a primary key, lines 50-53 *)

RECURSIVE Replay(_, _)
\* the engine after the statements, of which the rejected ones changed nothing
Replay(d, stmts) ==
    IF stmts = << >> THEN d
    ELSE Replay(IF Head(stmts).ok THEN Apply(d, Head(stmts)) ELSE d, Tail(stmts))

\* the number of reorganize commands that end just before statement i
ReorgsBefore(i) ==
    Cardinality({k \in 1..(i - 1) : \A j \in k..(i - 1) : trace[j].op = "reorg"})

\* the commands just before statement i are a whole pass: one per table
\* that was pending when the first of them ran, in the order of the query,
\* none rejected
PassBefore(i) ==
    LET m == ReorgsBefore(i)
        before == Replay(db0, SubSeq(trace, 1, i - 1 - m))
        pass == SubSeq(trace, i - m, i - 1)
    IN  /\ TablesOf(pass) = checkReorgSQL(before)
        /\ \A k \in 1..m : pass[k].ok

CreatesPk == {i \in Idx : trace[i].op = "create_pk"}

\* C25: each statement that creates a primary key, in alter_field, in
\* add_field and in the restoration, comes directly after the commands of a
\* reorganization pass over every table pending at that point (no command
\* when none is pending), with no other statement in between.
C25_ReorgBeforeCreatePk ==
    \A i \in CreatesPk : PassBefore(i)

\* a primary key created by lines 362-380 directly after a reorganize command
C25_Witness ==
    \E i \in CreatesPk :
      /\ trace[i].ok /\ trace[i].at = "add_key"
      /\ ReorgsBefore(i) > 0

\* the foreign keys the engine holds on the old column when the call starts
OwnFks0 == constraint_names(db0, TableT, orig_old.column, "fk")

OwnFkDropped(name, i) ==
    \E j \in 1..(i - 1) :
       /\ trace[j].op = "delete_fk"
       /\ trace[j].table = TableT
       /\ trace[j].name = name
       /\ trace[j].ok

\* the statement that creates the foreign key of the altered column
CreatesOwnFk(i) == trace[i].op = "create_fk" /\ trace[i].at = "create_fk"

ColumnChangeLabels == {"rename", "alter_type", "alter_default", "alter_null", "add_key"}

OwnFkAsDeclared(i) ==
    /\ trace[i].table = TableT
    /\ trace[i].name = create_index_name(TableT, orig_new.column, "_fk")
    /\ trace[i].column = orig_new.column
    /\ trace[i].arg = orig_new.to_table
    /\ trace[i].to = ColTarget

\* C26: when the old definition has a relation, every foreign key declared on
\* the old column is dropped before any rename or type alteration of the
\* column; a call that returns creates a foreign key on the column if and only
\* if the new definition has a relation, after every rename, type, default,
\* nullability and key statement, under the _fk name and referencing the
\* target table and column of the new definition.
C26_OwnForeignKey ==
    (IsAlter /\ Ordinary(orig_old, orig_new)) =>
      /\ orig_old.remote_field =>
           \A i \in Renames \cup TypeAlterations :
              \A k \in 1..Len(OwnFks0) : OwnFkDropped(OwnFks0[k], i)
      /\ Returned =>
           /\ orig_new.remote_field <=> \E i \in Idx : CreatesOwnFk(i)
           /\ \A i \in Idx : CreatesOwnFk(i) =>
                 /\ OwnFkAsDeclared(i)
                 /\ \A j \in Idx : trace[j].at \in ColumnChangeLabels => j < i

C26_Witness ==
    /\ IsAlter /\ Returned
    /\ orig_old.remote_field /\ orig_new.remote_field
    /\ Differs("column")
    /\ orig_old.to_table # orig_new.to_table
    /\ OwnFks0 # << >>
    /\ \E i \in Renames : trace[i].ok
    /\ \E i \in Idx : CreatesOwnFk(i) /\ trace[i].ok

----------------------------------------------------------------------------
(* alter_field renaming a column of a table whose constraints span several
   columns, one of them a column whose name contains the old name *)

ColumnLists == {<<ColId, ColOther>>, <<ColOther, ColId>>, <<ColId>>}

\* the constraints of the table: each kind absent or over one of the lists
ConstraintChoices(kind, suffix) ==
    {<< >>} \cup
    {<< Constraint(create_index_name(TableT, ColId, suffix), TableT, kind, columns) >> :
       columns \in ColumnLists}

InitRename ==
    \E pk \in ConstraintChoices("pk", "_pk"),
       unique \in ConstraintChoices("unique", "_uniq"),
       index \in ConstraintChoices("index", "_index"),
       nullable \in BOOLEAN,
       pending \in {<< >>, <<TableT>>} :
      /\ nullable => pk = << >>
      /\ op = "alter_field"
      /\ strict = FALSE
      /\ old_field = Field("IntegerField", ColId, nullable, FALSE, FALSE, FALSE,
                           None, NOT_PROVIDED, FALSE)
      /\ new_field = [old_field EXCEPT !.column = ColNew]
      /\ orig_old = old_field /\ orig_new = new_field
      /\ rels = << >> /\ incoming_relations = << >>
      /\ flags = NoFlags
      /\ deferred_constraints = NoDeferred
      /\ trace = << >>
      /\ pc = "start"
      /\ err = [kind |-> "none", at |-> ""]
      /\ db = [cols |-> (ColId :> Column("INTEGER", nullable, NOT_PROVIDED, << >>)
                         @@ ColOther :> Column("INTEGER", FALSE, NOT_PROVIDED, << >>)),
               cons |-> pk \o unique \o index,
               pend |-> pending, nrows |-> 0, identity_start |-> 0]
      /\ db0 = db

\* the blocks a call that only renames the column enters
NextRename ==
    \/ ComputeFlags
    \/ DeferConstraints
    \/ RenameColumn
    \/ RestoreConstraints

SpecRename == InitRename /\ [][NextRename]_vars

\* the statements of the restoration
Restores ==
    {i \in Idx : /\ trace[i].at = "restore"
                 /\ trace[i].op \in {"create_pk", "create_unique", "create_index"}}

\* the column list the constraint had when the call started
Columns0(name) ==
    LET c == CHOOSE k \in Range(db0.cons) : k.name = name /\ k.table = TableT
    IN  c.columns

\* C27: a restoration after a rename replaces, in the column list of every
\* constraint it recreates, the entry that is the renamed column by the new
\* name and emits every other column name unchanged and in the same position,
\* also when the old name is a substring of another column's name.
C27_OnlyRenamedEntryReplaced ==
    (IsAlter /\ orig_old.column # orig_new.column) =>
      \A i \in Restores :
         LET before == Columns0(trace[i].name)
         IN  /\ Len(trace[i].columns) = Len(before)
             /\ \A k \in 1..Len(before) :
                   trace[i].columns[k] =
                     IF before[k] = orig_old.column THEN orig_new.column
                     ELSE before[k]

====
